---- MODULE Spec2Model ----
(***************************************************************************)
(* hermes-trace: the data-masking engine (DataMasker) and the logger       *)
(* (HermesTrace) that applies it to log entries before they reach the      *)
(* transports.                                                             *)
(*                                                                         *)
(* Strings are sequences of one-character strings, so that substring,      *)
(* repeat, toLowerCase and regular-expression matching are computed the    *)
(* way the code computes them.                                             *)
(***************************************************************************)
EXTENDS Integers, Sequences, FiniteSets, TLC

(***************************************************************************)
(* Characters                                                              *)
(***************************************************************************)
UpperChars == <<"A","B","C","D","E","F","G","H","I","J","K","L","M",
                "N","O","P","Q","R","S","T","U","V","W","X","Y","Z">>

LowerChars == <<"a","b","c","d","e","f","g","h","i","j","k","l","m",
                "n","o","p","q","r","s","t","u","v","w","x","y","z">>

Digits == {"0","1","2","3","4","5","6","7","8","9"}

Letters == {UpperChars[i] : i \in 1..Len(UpperChars)} \cup {LowerChars[i] : i \in 1..Len(LowerChars)}

\* \w of a JavaScript regular expression
WordChars == Letters \cup Digits \cup {"_"}

\* [-.\s] of phoneRegex, [-\s] of creditCardRegex (the only white space modelled is " ")
SpaceChars == {" "}

\* String.prototype.toLowerCase, one character
ToLowerChar(c) ==
  IF \E i \in 1..Len(UpperChars) : UpperChars[i] = c
  THEN LowerChars[CHOOSE i \in 1..Len(UpperChars) : UpperChars[i] = c]
  ELSE c

\* String.prototype.toLowerCase
ToLowerCase(s) == [i \in 1..Len(s) |-> ToLowerChar(s[i])]

\* String.prototype.substring(from, to), 0-based, to exclusive
Substring(s, from, to) == SubSeq(s, from + 1, to)

\* String.prototype.repeat
Repeat(s, n) ==
  IF n <= 0 \/ s = <<>> THEN <<>>
  ELSE <<>> \o [i \in 1..(n * Len(s)) |-> s[((i - 1) % Len(s)) + 1]]

\* const name = value; body: the value is computed first, once, and named in
\* the body
Let(value, Body(_)) == CHOOSE result \in {Body(name) : name \in {value}} : TRUE

\* the concatenation of a sequence of sequences (by halves)
RECURSIVE Concat(_)
Concat(ss) ==
  IF Len(ss) = 0 THEN <<>>
  ELSE IF Len(ss) = 1 THEN ss[1]
  ELSE Concat(SubSeq(ss, 1, Len(ss) \div 2)) \o Concat(SubSeq(ss, Len(ss) \div 2 + 1, Len(ss)))

(***************************************************************************)
(* Regular expressions.  A pattern is a tree:                              *)
(*   [t |-> "set", cs]        one character of the set cs                  *)
(*   [t |-> "any"]            .                                            *)
(*   [t |-> "bol"], "eol"     ^ and $ (no multiline flag is ever used)     *)
(*   [t |-> "wb"]             \b                                           *)
(*   [t |-> "seq", xs]        concatenation                                *)
(*   [t |-> "rep", x, min, max]  greedy quantifier, max = -1: unbounded    *)
(* Ends(n, s, i, ic) is what the backtracking matcher of the engine tries, *)
(* in order: the positions where a match of n that starts at offset i of s *)
(* can end, the preferred one first.  ic is the ignoreCase flag.           *)
(***************************************************************************)
RSet(cs) == [t |-> "set", cs |-> cs]
RLit(c) == [t |-> "set", cs |-> {c}]
RAny == [t |-> "any"]
RBol == [t |-> "bol"]
REol == [t |-> "eol"]
RWb == [t |-> "wb"]
RSeq(xs) == [t |-> "seq", xs |-> xs]
RRep(x, min, max) == [t |-> "rep", x |-> x, min |-> min, max |-> max]
ROpt(x) == RRep(x, 0, 1)
RPlus(x) == RRep(x, 1, -1)
RStar(x) == RRep(x, 0, -1)
RTimes(x, n) == RRep(x, n, n)

InClass(c, cs, ic) ==
  IF ic THEN \E d \in cs : ToLowerChar(d) = ToLowerChar(c) ELSE c \in cs

IsWordAt(s, i) == i >= 1 /\ i <= Len(s) /\ s[i] \in WordChars

\* an atom that matches exactly one character
Quantifiable(n) == n.t \in {"set", "any"}

\* the character at offset i of s is one that the one-character atom x matches
MatchesAt(x, s, i, ic) == i < Len(s) /\ (x.t = "any" \/ InClass(s[i + 1], x.cs, ic))

\* the number of characters from offset i on that the one-character atom x
\* matches one after the other, max at most (max = -1: unbounded)
Run(x, max, s, i, ic) ==
  Let(IF max < 0 \/ max > Len(s) - i THEN Len(s) - i ELSE max, LAMBDA cap :
    CHOOSE m \in 0..cap :
      /\ \A j \in 0..(m - 1) : MatchesAt(x, s, i + j, ic)
      /\ m = cap \/ ~MatchesAt(x, s, i + m, ic))

RECURSIVE Ends(_, _, _, _), SeqEnds(_, _, _, _, _), SeqEndsFrom(_, _, _, _),
          RepEnds(_, _, _, _, _, _), RepEndsFrom(_, _, _, _, _, _, _, _)

Ends(n, s, i, ic) ==
  CASE n.t = "set" -> IF i < Len(s) /\ InClass(s[i + 1], n.cs, ic) THEN <<i + 1>> ELSE <<>>
    [] n.t = "any" -> IF i < Len(s) THEN <<i + 1>> ELSE <<>>
    [] n.t = "bol" -> IF i = 0 THEN <<i>> ELSE <<>>
    [] n.t = "eol" -> IF i = Len(s) THEN <<i>> ELSE <<>>
    [] n.t = "wb"  -> IF IsWordAt(s, i) # IsWordAt(s, i + 1) THEN <<i>> ELSE <<>>
    [] n.t = "seq" -> SeqEnds(n.xs, 1, s, <<i>>, ic)
    [] n.t = "rep" -> RepEnds(n.x, n.min, n.max, s, i, ic)

\* the ends of xs[k..] from the offsets is that the matcher has come to after
\* xs[1..k-1], in its order: each end of xs[k] from each of them, continued by
\* the rest
SeqEnds(xs, k, s, is, ic) ==
  IF k > Len(xs) \/ is = <<>> THEN is
  ELSE SeqEnds(xs, k + 1, s, SeqEndsFrom(xs[k], s, is, ic), ic)

SeqEndsFrom(n, s, is, ic) ==
  Concat(<<>> \o [j \in 1..Len(is) |-> Ends(n, s, is[j], ic)])

\* greedy: one more iteration first, then (when min is reached) stopping here.
\* For an atom of one character that is the longest run first, then the
\* shorter ones down to min characters.
RepEnds(x, min, max, s, i, ic) ==
  IF Quantifiable(x)
  THEN Let(Run(x, max, s, i, ic), LAMBDA m :
         IF m < min THEN <<>> ELSE <<>> \o [j \in 1..(m - min + 1) |-> i + m - j + 1])
  ELSE (IF max = 0 THEN <<>>
        ELSE RepEndsFrom(x, min, max, s, i, Ends(x, s, i, ic), 1, ic))
       \o (IF min <= 0 THEN <<i>> ELSE <<>>)

RepEndsFrom(x, min, max, s, i, es, j, ic) ==
  IF j > Len(es) THEN <<>>
  ELSE (IF es[j] = i THEN <<>>   \* an empty iteration is not repeated
        ELSE RepEnds(x, IF min > 0 THEN min - 1 ELSE 0,
                     IF max > 0 THEN max - 1 ELSE max, s, es[j], ic))
       \o RepEndsFrom(x, min, max, s, i, es, j + 1, ic)

NoMatch == [found |-> FALSE, start |-> 0, end |-> 0]

\* the leftmost match of pattern n in s that starts at or after offset from
\* (sticky: exactly at from)
ExecFrom(n, s, from, ic, sticky) ==
  IF from > Len(s) THEN NoMatch
  ELSE Let({f \in (IF sticky THEN {from} ELSE from..Len(s)) : Ends(n, s, f, ic) # <<>>},
           LAMBDA starts :
             IF starts = {} THEN NoMatch
             ELSE Let(CHOOSE f \in starts : \A g \in starts : f <= g, LAMBDA f :
                    [found |-> TRUE, start |-> f, end |-> Ends(n, s, f, ic)[1]]))


(***************************************************************************)
(* RegExp objects.  The source of a pattern is a string; the characters    *)
(* ^ $ . * are syntax, every other character of the modelled alphabet is a *)
(* literal.  (The remaining syntax characters of the language,             *)
(* + ? ( ) [ ] { } | \, occur in no name of this model.)                   *)
(***************************************************************************)
\* new RegExp(source): the terms of the pattern, or the SyntaxError
\* ("Nothing to repeat") of a * with no atom before it.  A term is the
\* character at a place that holds no *, starred when a * follows it.
ParseTerms(src) ==
  Let(SelectSeq([k \in 1..Len(src) |-> k], LAMBDA k : src[k] # "*"), LAMBDA places :
    [ok |-> \A k \in 1..Len(src) :
              src[k] = "*" => (k > 1 /\ src[k - 1] \notin {"*", "^", "$"}),
     xs |-> [j \in 1..Len(places) |->
              Let(CASE src[places[j]] = "^" -> RBol
                    [] src[places[j]] = "$" -> REol
                    [] src[places[j]] = "." -> RAny
                    [] OTHER -> RLit(src[places[j]]), LAMBDA atom :
                IF places[j] < Len(src) /\ src[places[j] + 1] = "*" THEN RStar(atom)
                ELSE atom)]])

ValidPattern(src) == ParseTerms(src).ok

CompilePattern(src) == RSeq(<<>> \o ParseTerms(src).xs)

\* a RegExp object: its source and its flags i, g, y
RegExp(source, ic, g, y) == [source |-> source, ic |-> ic, g |-> g, y |-> y]

\* RegExp.prototype.test(str) with the object's lastIndex li: the result and
\* the lastIndex the call leaves.  Without g and y the search starts at 0 and
\* lastIndex is not touched; with g or y it starts at lastIndex, which a
\* failure resets to 0 and a success sets to the end of the match.
RegExpTest(re, li, str) ==
  IF ~(re.g \/ re.y)
  THEN [res |-> ExecFrom(CompilePattern(re.source), str, 0, re.ic, FALSE).found, li |-> li]
  ELSE IF li > Len(str) THEN [res |-> FALSE, li |-> 0]
  ELSE LET mt == ExecFrom(CompilePattern(re.source), str, li, re.ic, re.y)
       IN  IF mt.found THEN [res |-> TRUE, li |-> mt.end] ELSE [res |-> FALSE, li |-> 0]

\* the non-overlapping matches of a /g pattern that String.prototype.replace
\* visits, left to right (none of the patterns used matches the empty string)
RECURSIVE AllMatches(_, _, _)
AllMatches(n, s, from) ==
  LET mt == ExecFrom(n, s, from, FALSE, FALSE)
  IN  IF ~mt.found THEN <<>>
      ELSE <<mt>> \o AllMatches(n, s, IF mt.end > mt.start THEN mt.end ELSE mt.end + 1)

\* str.replace(/n/g, F): every match replaced by F(match)
ReplaceMatches(s, ms, F(_)) ==
  LET piece(j) == Substring(s, IF j = 1 THEN 0 ELSE ms[j - 1].end, ms[j].start)
                    \o F(Substring(s, ms[j].start, ms[j].end))
  IN  Concat(<<>> \o [j \in 1..Len(ms) |-> piece(j)])
        \o Substring(s, IF ms = <<>> THEN 0 ELSE ms[Len(ms)].end, Len(s))

ReplaceAll(n, s, F(_)) == ReplaceMatches(s, AllMatches(n, s, 0), F)

(***************************************************************************)
(* The four patterns of maskString                                         *)
(***************************************************************************)
\* /\b[A-Za-z0-9._%+-]+@[A-Za-z0-9.-]+\.[A-Z|a-z]{2,}\b/g
emailRegex ==
  RSeq(<<RWb, RPlus(RSet(Letters \cup Digits \cup {".", "_", "%", "+", "-"})), RLit("@"),
         RPlus(RSet(Letters \cup Digits \cup {".", "-"})), RLit("."),
         RRep(RSet(Letters \cup {"|"}), 2, -1), RWb>>)

PhoneSep == RSet({"-", "."} \cup SpaceChars)

\* /(\+?1[-.\s]?)?(\(?\d{3}\)?[-.\s]?)?\d{3}[-.\s]?\d{4}/g
phoneRegex ==
  RSeq(<<ROpt(RSeq(<<ROpt(RLit("+")), RLit("1"), ROpt(PhoneSep)>>)),
         ROpt(RSeq(<<ROpt(RLit("(")), RTimes(RSet(Digits), 3), ROpt(RLit(")")), ROpt(PhoneSep)>>)),
         RTimes(RSet(Digits), 3), ROpt(PhoneSep), RTimes(RSet(Digits), 4)>>)

\* /\b(?:\d{4}[-\s]?){3}\d{4}\b/g
creditCardRegex ==
  RSeq(<<RWb, RTimes(RSeq(<<RTimes(RSet(Digits), 4), ROpt(RSet({"-"} \cup SpaceChars))>>), 3),
         RTimes(RSet(Digits), 4), RWb>>)

\* /\b\d{3}-?\d{2}-?\d{4}\b/g
ssnRegex ==
  RSeq(<<RWb, RTimes(RSet(Digits), 3), ROpt(RLit("-")), RTimes(RSet(Digits), 2),
         ROpt(RLit("-")), RTimes(RSet(Digits), 4), RWb>>)


(***************************************************************************)
(* String literals of the configurations, rules, sample data and log calls *)
(***************************************************************************)
\* the strings, each the sequence of its characters
S ==
  [ password |-> <<"p","a","s","s","w","o","r","d">>,
    Password |-> <<"P","a","s","s","w","o","r","d">>,
    PASSWORD |-> <<"P","A","S","S","W","O","R","D">>,
    secret |-> <<"s","e","c","r","e","t">>,
    name |-> <<"n","a","m","e">>,
    user |-> <<"u","s","e","r">>,
    profile |-> <<"p","r","o","f","i","l","e">>,
    username |-> <<"u","s","e","r","n","a","m","e">>,
    access_token |-> <<"a","c","c","e","s","s","_","t","o","k","e","n">>,
    other_field |-> <<"o","t","h","e","r","_","f","i","e","l","d">>,
    token |-> <<"t","o","k","e","n">>,
    special |-> <<"s","p","e","c","i","a","l">>,
    normal |-> <<"n","o","r","m","a","l">>,
    dollar_id |-> <<"$","i","d">>,
    star_key |-> <<"*","k","e","y">>,
    list |-> <<"l","i","s","t">>,
    email |-> <<"e","m","a","i","l">>,
    CUSTOM_MASKED |-> <<"C","U","S","T","O","M","_","M","A","S","K","E","D">>,
    stars |-> <<"*","*","*">>,
    star |-> <<"*">>,
    hash |-> <<"#">>,
    TOKEN |-> <<"[","T","O","K","E","N","]">>,
    x |-> <<"x">>,
    John |-> <<"J","o","h","n">>,
    secret1 |-> <<"s","e","c","r","e","t","1">>,
    secret2 |-> <<"s","e","c","r","e","t","2">>,
    secret123 |-> <<"s","e","c","r","e","t","1","2","3">>,
    abc123 |-> <<"a","b","c","1","2","3">>,
    normal_data |-> <<"n","o","r","m","a","l"," ","d","a","t","a">>,
    john_mail |-> <<"j","o","h","n","@","e","x","a","m","p","l","e",".","c","o","m">>,
    card |-> <<"4","5","3","2","1","2","3","4","5","6","7","8","9","0","1","2">>,
    msg_login |-> <<"l","o","g","i","n"," ","j","o","h","n","@","e","x","a","m","p","l","e",".","c","o","m">>,
    boom |-> <<"b","o","o","m"," ","5","5","5","-","1","2","3","4">>,
    trace |-> <<"a","t"," ","c","a","l","l","e","r">>,
    errstack |-> <<"E","r","r","o","r",":"," ","b","o","o","m"," ","5","5","5","-","1","2","3","4">>,
    session |-> <<"s","e","s","s","1">>,
    ssn |-> <<"s","s","n">>,
    creditCard |-> <<"c","r","e","d","i","t","C","a","r","d">>,
    user_mail |-> <<"u","s","e","r","@","e","x","a","m","p","l","e",".","c","o","m">>,
    john_doe |-> <<"j","o","h","n","_","d","o","e">> ]

(***************************************************************************)
(* JavaScript values.  A mapping is the sequence of its own enumerable     *)
(* entries in Object.entries order; id is the identity of the object (two  *)
(* references are the same object iff the ids are equal); every object     *)
(* allocated by the masker during a call has the id NewId.                 *)
(***************************************************************************)
NewId == 0

Null == [t |-> "null"]
Undefined == [t |-> "undefined"]
Str(s) == [t |-> "str", s |-> s]
Num(n) == [t |-> "num", n |-> n]
Bool(b) == [t |-> "bool", b |-> b]
DateV(id) == [t |-> "date", id |-> id]
Arr(id, xs) == [t |-> "arr", id |-> id, xs |-> xs]
Obj(id, es) == [t |-> "obj", id |-> id, es |-> es]
Entry(k, v) == [k |-> k, v |-> v]

\* A property value that is an object containing the property (obj.self = obj):
\* the reference is written RefV(id), and CyclicObjects holds the object.
RefV(id) == [t |-> "ref", id |-> id]

\* const obj = { name: 'test' }; obj.self = obj
\* const obj = { name: 'test' }; obj.password = [obj]
CyclicObjects ==
  { Obj(30, <<Entry(S.name, Str(<<"t","e","s","t">>)), Entry(<<"s","e","l","f">>, RefV(30))>>),
    Obj(31, <<Entry(S.name, Str(<<"t","e","s","t">>)), Entry(S.password, Arr(32, <<RefV(31)>>))>>) }

\* the object a reference leads to
Target(ref) == CHOOSE obj \in CyclicObjects : obj.id = ref.id

\* RangeError: Maximum call stack size exceeded
Thrown == [t |-> "throw", error |-> "RangeError"]

IsNullish(v) == v.t \in {"null", "undefined"}

\* typeof
TypeOf(v) ==
  CASE v.t = "str" -> "string"
    [] v.t = "num" -> "number"
    [] v.t = "bool" -> "boolean"
    [] v.t = "undefined" -> "undefined"
    [] OTHER -> "object"

\* Object.entries: a Date has no own enumerable property
ObjectEntries(v) == IF v.t = "obj" THEN v.es ELSE IF v.t = "ref" THEN Target(v).es ELSE <<>>

\* masked[key] = value on the entries of a plain object
SetProperty(es, key, value) ==
  IF \E i \in 1..Len(es) : es[i].k = key
  THEN [i \in 1..Len(es) |-> IF es[i].k = key THEN Entry(key, value) ELSE es[i]]
  ELSE Append(es, Entry(key, value))

Keys(es) == {es[i].k : i \in 1..Len(es)}

Get(v, key) == (CHOOSE e \in {v.es[i] : i \in 1..Len(v.es)} : e.k = key).v

(***************************************************************************)
(* Masking rules (MaskingRule).  The rule objects a caller can hand to the *)
(* masker are those of RuleTable; a rule is named by its index.  hasMask   *)
(* is FALSE for a rule with no mask property.  A rule's RegExp object      *)
(* carries its own lastIndex, kept in the variable lastIndex.              *)
(***************************************************************************)
StringField(name) == [kind |-> "string", name |-> name]
RegExpField(re) == [kind |-> "regexp", re |-> re]

MaskingRule(field, hasMask, mask, partial, preserveLength) ==
  [field |-> field, hasMask |-> hasMask, mask |-> mask,
   partial |-> partial, preserveLength |-> preserveLength]

RuleTable ==
  << \* { field: 'password', mask: '#', partial: true, preserveLength: true }
     MaskingRule(StringField(S.password), TRUE, S.hash, TRUE, TRUE),
     \* { field: /.*_token$/, mask: '[TOKEN]', partial: false, preserveLength: false }
     MaskingRule(RegExpField(RegExp(<<".", "*">> \o <<"_">> \o S.token \o <<"$">>, FALSE, FALSE, FALSE)),
                 TRUE, S.TOKEN, FALSE, FALSE),
     \* { field: 'Password' }
     MaskingRule(StringField(S.Password), FALSE, <<>>, FALSE, FALSE),
     \* { field: /token/g, mask: '#', preserveLength: true }
     MaskingRule(RegExpField(RegExp(S.token, FALSE, TRUE, FALSE)), TRUE, S.hash, FALSE, TRUE),
     \* { field: 'other_field', mask: '', partial: true }
     MaskingRule(StringField(S.other_field), TRUE, <<>>, TRUE, FALSE),
     \* { field: 'normal', partial: true, preserveLength: true }
     MaskingRule(StringField(S.normal), FALSE, <<>>, TRUE, TRUE) >>

RuleIds == 1..Len(RuleTable)

\* rules in the rule list
MaxRules == 2

\* calls of maskData the call stack holds inside the first one
MaxDepth == 3

(***************************************************************************)
(* Custom maskers (key, value) => any, named; "null" is no custom masker   *)
(***************************************************************************)
CustomMaskers == {"special"}

\* this.config.customMasker(key, value), for the masker
\* (key, value) => key === 'special' ? 'CUSTOM_MASKED' : value
CallCustomMasker(masker, key, value) ==
  IF key = S.special THEN Str(S.CUSTOM_MASKED) ELSE value

(***************************************************************************)
(* DataMasker: the masking algorithms on strings                           *)
(***************************************************************************)
preserveLengthMask(value, mask) ==
  IF Len(mask) = 1 THEN Repeat(mask, Len(value)) ELSE mask

\* partialMask with the mask once in the middle, whatever preserveLength is
partialMaskOnce(value, mask, preserveLength) ==
  IF Len(value) <= 4
  THEN (IF preserveLength THEN preserveLengthMask(value, mask) ELSE mask)
  ELSE Substring(value, 0, 2) \o mask \o Substring(value, Len(value) - 2, Len(value))

partialMask(value, mask, preserveLength) ==
  IF Len(value) <= 4
  THEN (IF preserveLength THEN preserveLengthMask(value, mask) ELSE mask)
  ELSE LET start  == Substring(value, 0, 2)
           end    == Substring(value, Len(value) - 2, Len(value))
           middle == IF preserveLength THEN Repeat(mask, Len(value) - 4) ELSE mask
       IN  start \o middle \o end

\* email.split('@'): the parts between the separators
RECURSIVE SplitAt(_, _, _)
SplitAt(s, k, cur) ==
  IF k > Len(s) THEN <<cur>>
  ELSE IF s[k] = "@" THEN <<cur>> \o SplitAt(s, k + 1, <<>>)
  ELSE SplitAt(s, k + 1, Append(cur, s[k]))

partialMaskEmail(config, email) ==
  LET parts  == SplitAt(email, 1, <<>>)
      local  == parts[1]
      domain == IF Len(parts) >= 2 THEN parts[2] ELSE <<"u","n","d","e","f","i","n","e","d">>
  IN  IF Len(local) <= 2 THEN config.defaultMask \o <<"@">> \o domain
      ELSE <<local[1]>> \o config.defaultMask \o <<local[Len(local)]>> \o <<"@">> \o domain

partialMaskCreditCard(config, card) ==
  LET digits == SelectSeq(card, LAMBDA c : c \in Digits)
  IN  IF Len(digits) < 8 THEN config.defaultMask
      ELSE Repeat(config.defaultMask, Len(digits) - 4)
             \o Substring(digits, Len(digits) - 4, Len(digits))

maskString(config, str) ==
  Let(ReplaceAll(emailRegex, str, LAMBDA mt : partialMaskEmail(config, mt)), LAMBDA s1 :
  Let(ReplaceAll(phoneRegex, s1, LAMBDA mt : config.defaultMask), LAMBDA s2 :
  Let(ReplaceAll(creditCardRegex, s2, LAMBDA mt : partialMaskCreditCard(config, mt)), LAMBDA s3 :
    ReplaceAll(ssnRegex, s3, LAMBDA mt : config.defaultMask))))

(***************************************************************************)
(* DataMasker: the decisions on a key                                      *)
(***************************************************************************)
\* maskValue that puts the mask in place of a string whatever its length
maskValueMaskOnly(value, mask) ==
  IF IsNullish(value) THEN value ELSE Str(mask)

maskValue(value, mask) ==
  IF IsNullish(value) THEN value
  ELSE IF TypeOf(value) = "string" THEN Str(preserveLengthMask(value.s, mask))
  ELSE Str(mask)

applyMaskingRule(config, value, rule) ==
  IF IsNullish(value) THEN value
  ELSE LET mask == IF rule.hasMask /\ rule.mask # <<>> THEN rule.mask ELSE config.defaultMask
       IN  IF TypeOf(value) = "string"
           THEN (IF rule.partial THEN Str(partialMask(value.s, mask, rule.preserveLength))
                 ELSE IF rule.preserveLength THEN Str(preserveLengthMask(value.s, mask))
                 ELSE Str(mask))
           ELSE Str(mask)

\* the predicate of findMatchingRule on one rule: the answer and the lastIndex
\* the rule's RegExp is left with
RuleTest(r, li, key) ==
  IF RuleTable[r].field.kind = "string"
  THEN [res |-> ToLowerCase(key) = ToLowerCase(RuleTable[r].field.name), li |-> li]
  ELSE RegExpTest(RuleTable[r].field.re, li, key)

\* this.config.rules.find(...): the rules are tried in array order up to the
\* first that answers true; rule = 0 is undefined.  li is the lastIndex of
\* every rule's RegExp before, and in the result after.
RECURSIVE FindFrom(_, _, _, _)
FindFrom(rules, k, li, key) ==
  IF k > Len(rules) THEN [rule |-> 0, li |-> li]
  ELSE LET r  == rules[k]
           tr == RuleTest(r, li[r], key)
           l2 == [li EXCEPT ![r] = tr.li]
       IN  IF tr.res THEN [rule |-> r, li |-> l2] ELSE FindFrom(rules, k + 1, l2, key)

findMatchingRule(rules, li, key) == FindFrom(rules, 1, li, key)

\* the patterns carry the flag i alone: test leaves their lastIndex alone
isSensitiveField(patterns, key) ==
  \E i \in 1..Len(patterns) : RegExpTest(patterns[i], 0, key).res


(***************************************************************************)
(* DataMasker.maskData.  A call reads the configuration (config, the       *)
(* compiled sensitiveFieldPatterns) and the lastIndex li of the rules'     *)
(* RegExp objects, and yields the value v it returns and the lastIndex li  *)
(* it leaves.  tr records, in order, the keys maskObject has decided on:   *)
(* the path of the key from the argument of the call, the branch taken     *)
(* (how: "custom", "rule", "sensitive" or "recurse"), the rule found and   *)
(* the lastIndex before the decision.  The call stack holds MaxDepth calls *)
(* of maskData inside the first one; one call more throws the RangeError   *)
(* of the engine (v is Thrown), which no caller on the way catches.        *)
(***************************************************************************)
KeyStep(k) == [k |-> k, i |-> 0]
IndexStep(i) == [k |-> <<>>, i |-> i]

Decision(path, how, rule, li) == [path |-> path, how |-> how, rule |-> rule, li |-> li]

Result(v, li, tr) == [v |-> v, li |-> li, tr |-> tr]

RECURSIVE maskData(_, _, _, _, _), maskObject(_, _, _, _, _), MaskKey(_, _, _, _, _, _),
          MaskEntries(_, _, _, _, _, _, _, _), MaskItems(_, _, _, _, _, _, _, _)

\* a map that gives the masked elements in the opposite order
MaskItemsReversed(config, patterns, li, xs, k, out, path, tr) ==
  IF k > Len(xs) THEN Result(Arr(NewId, out), li, tr)
  ELSE Let(maskData(config, patterns, li, xs[k], Append(path, IndexStep(k))),
           LAMBDA r : IF r.v = Thrown THEN Result(Thrown, r.li, tr \o r.tr)
                      ELSE MaskItems(config, patterns, r.li, xs, k + 1, <<r.v>> \o out,
                                     path, tr \o r.tr))

\* a maskObject that stores the masked values into the object it was given
maskObjectInPlace(config, patterns, li, obj, path) ==
  Let(MaskEntries(config, patterns, li, ObjectEntries(obj), 1, <<>>, path, <<>>),
      LAMBDA r : IF r.v = Thrown THEN r ELSE Result(Obj(obj.id, r.v.es), r.li, r.tr))

\* the loop body that asks the custom masker only for the keys no rule and no
\* sensitive name answers for
MaskKeyCustomLast(config, patterns, li, key, value, path) ==
  Let(findMatchingRule(config.rules, li, key), LAMBDA found :
    IF found.rule # 0
    THEN Result(applyMaskingRule(config, value, RuleTable[found.rule]), found.li,
                <<Decision(path, "rule", found.rule, li)>>)
    ELSE IF isSensitiveField(patterns, key)
    THEN Result(maskValue(value, config.defaultMask), found.li,
                <<Decision(path, "sensitive", 0, li)>>)
    ELSE IF config.customMasker # "null"
    THEN Result(CallCustomMasker(config.customMasker, key, value), found.li,
                <<Decision(path, "custom", 0, li)>>)
    ELSE Let(maskData(config, patterns, found.li, value, path), LAMBDA r :
           Result(r.v, r.li, <<Decision(path, "recurse", 0, li)>> \o r.tr)))

\* the loop body that masks what the custom masker returned like any value
MaskKeyCustomThenMasked(config, patterns, li, key, value, path) ==
  IF config.customMasker # "null"
  THEN Let(maskData(config, patterns, li, CallCustomMasker(config.customMasker, key, value), path),
           LAMBDA r : Result(r.v, r.li, <<Decision(path, "custom", 0, li)>> \o r.tr))
  ELSE Let(findMatchingRule(config.rules, li, key), LAMBDA found :
         IF found.rule # 0
         THEN Result(applyMaskingRule(config, value, RuleTable[found.rule]), found.li,
                     <<Decision(path, "rule", found.rule, li)>>)
         ELSE IF isSensitiveField(patterns, key)
         THEN Result(maskValue(value, config.defaultMask), found.li,
                     <<Decision(path, "sensitive", 0, li)>>)
         ELSE Let(maskData(config, patterns, found.li, value, path), LAMBDA r :
                Result(r.v, r.li, <<Decision(path, "recurse", 0, li)>> \o r.tr)))

\* the loop body that masks the value of a sensitive key and goes on into it
MaskKeyDescending(config, patterns, li, key, value, path) ==
  Let(findMatchingRule(config.rules, li, key), LAMBDA found :
    IF config.customMasker = "null" /\ found.rule = 0 /\ isSensitiveField(patterns, key)
       /\ value.t \in {"obj", "arr"}
    THEN Let(maskData(config, patterns, found.li, value, path), LAMBDA r :
           Result(r.v, r.li, <<Decision(path, "sensitive", 0, li)>> \o r.tr))
    ELSE IF config.customMasker # "null"
    THEN Result(CallCustomMasker(config.customMasker, key, value), li,
                <<Decision(path, "custom", 0, li)>>)
    ELSE IF found.rule # 0
    THEN Result(applyMaskingRule(config, value, RuleTable[found.rule]), found.li,
                <<Decision(path, "rule", found.rule, li)>>)
    ELSE IF isSensitiveField(patterns, key)
    THEN Result(maskValue(value, config.defaultMask), found.li,
                <<Decision(path, "sensitive", 0, li)>>)
    ELSE Let(maskData(config, patterns, found.li, value, path), LAMBDA r :
           Result(r.v, r.li, <<Decision(path, "recurse", 0, li)>> \o r.tr)))

\* maskData that masks whatever the enabled flag is
maskDataAlways(config, patterns, li, data, path) ==
  IF Len(path) > MaxDepth THEN Result(Thrown, li, <<>>)
  ELSE IF IsNullish(data) THEN Result(data, li, <<>>)
  ELSE IF TypeOf(data) = "string" THEN Result(Str(maskString(config, data.s)), li, <<>>)
  ELSE IF data.t = "arr" THEN MaskItems(config, patterns, li, data.xs, 1, <<>>, path, <<>>)
  ELSE IF TypeOf(data) = "object" THEN maskObject(config, patterns, li, data, path)
  ELSE Result(data, li, <<>>)

\* maskData with a guard that hands a value it is already masking back as it is
maskDataSeenSet(config, patterns, li, data, path) ==
  IF Len(path) > MaxDepth THEN Result(Thrown, li, <<>>)
  ELSE IF ~config.enabled THEN Result(data, li, <<>>)
  ELSE IF IsNullish(data) THEN Result(data, li, <<>>)
  ELSE IF data.t = "ref" THEN Result(data, li, <<>>)
  ELSE IF TypeOf(data) = "string" THEN Result(Str(maskString(config, data.s)), li, <<>>)
  ELSE IF data.t = "arr" THEN MaskItems(config, patterns, li, data.xs, 1, <<>>, path, <<>>)
  ELSE IF TypeOf(data) = "object" THEN maskObject(config, patterns, li, data, path)
  ELSE Result(data, li, <<>>)

maskData(config, patterns, li, data, path) ==
  IF Len(path) > MaxDepth THEN Result(Thrown, li, <<>>)
  ELSE IF ~config.enabled THEN Result(data, li, <<>>)
  ELSE IF IsNullish(data) THEN Result(data, li, <<>>)
  ELSE IF TypeOf(data) = "string" THEN Result(Str(maskString(config, data.s)), li, <<>>)
  ELSE IF data.t = "arr" THEN MaskItems(config, patterns, li, data.xs, 1, <<>>, path, <<>>)
  ELSE IF TypeOf(data) = "object" THEN maskObject(config, patterns, li, data, path)
  ELSE Result(data, li, <<>>)

\* data.map(item => this.maskData(item)): a new array, element by element
MaskItems(config, patterns, li, xs, k, out, path, tr) ==
  IF k > Len(xs) THEN Result(Arr(NewId, out), li, tr)
  ELSE Let(maskData(config, patterns, li, xs[k], Append(path, IndexStep(k))),
           LAMBDA r : IF r.v = Thrown THEN Result(Thrown, r.li, tr \o r.tr)
                      ELSE MaskItems(config, patterns, r.li, xs, k + 1, Append(out, r.v),
                                     path, tr \o r.tr))

\* the body of the loop of maskObject for one entry [key, value]
MaskKey(config, patterns, li, key, value, path) ==
  IF config.customMasker # "null"
  THEN Result(CallCustomMasker(config.customMasker, key, value), li,
              <<Decision(path, "custom", 0, li)>>)
  ELSE Let(findMatchingRule(config.rules, li, key), LAMBDA found :
         IF found.rule # 0
         THEN Result(applyMaskingRule(config, value, RuleTable[found.rule]), found.li,
                     <<Decision(path, "rule", found.rule, li)>>)
         ELSE IF isSensitiveField(patterns, key)
         THEN Result(maskValue(value, config.defaultMask), found.li,
                     <<Decision(path, "sensitive", 0, li)>>)
         ELSE Let(maskData(config, patterns, found.li, value, path), LAMBDA r :
                Result(r.v, r.li, <<Decision(path, "recurse", 0, li)>> \o r.tr)))

\* for (const [key, value] of Object.entries(obj)) masked[key] = ...
MaskEntries(config, patterns, li, es, k, masked, path, tr) ==
  IF k > Len(es) THEN Result(Obj(NewId, masked), li, tr)
  ELSE Let(MaskKey(config, patterns, li, es[k].k, es[k].v, Append(path, KeyStep(es[k].k))),
           LAMBDA r : IF r.v = Thrown THEN Result(Thrown, r.li, tr \o r.tr)
                      ELSE MaskEntries(config, patterns, r.li, es, k + 1,
                                       SetProperty(masked, es[k].k, r.v), path, tr \o r.tr))

maskObject(config, patterns, li, obj, path) ==
  MaskEntries(config, patterns, li, ObjectEntries(obj), 1, <<>>, path, <<>>)


(***************************************************************************)
(* DataMasker: construction and configuration                              *)
(***************************************************************************)
\* the sensitiveFields a masker has when its configuration names none
DefaultSensitiveFields ==
  << <<"p","a","s","s","w","o","r","d">>,
     <<"s","e","c","r","e","t">>,
     <<"t","o","k","e","n">>,
     <<"a","p","i","K","e","y">>,
     <<"a","p","i","_","k","e","y">>,
     <<"a","c","c","e","s","s","T","o","k","e","n">>,
     <<"a","c","c","e","s","s","_","t","o","k","e","n">>,
     <<"r","e","f","r","e","s","h","T","o","k","e","n">>,
     <<"r","e","f","r","e","s","h","_","t","o","k","e","n">>,
     <<"s","e","s","s","i","o","n","T","o","k","e","n">>,
     <<"s","e","s","s","i","o","n","_","t","o","k","e","n">>,
     <<"p","r","i","v","a","t","e","K","e","y">>,
     <<"p","r","i","v","a","t","e","_","k","e","y">>,
     <<"c","r","e","d","i","t","C","a","r","d">>,
     <<"c","r","e","d","i","t","_","c","a","r","d">>,
     <<"s","s","n">>,
     <<"s","o","c","i","a","l","_","s","e","c","u","r","i","t","y">>,
     <<"e","m","a","i","l">>,
     <<"p","h","o","n","e">>,
     <<"p","h","o","n","e","N","u","m","b","e","r">>,
     <<"p","h","o","n","e","_","n","u","m","b","e","r">>,
     <<"a","d","d","r","e","s","s">>,
     <<"z","i","p","C","o","d","e">>,
     <<"z","i","p","_","c","o","d","e">>,
     <<"p","o","s","t","a","l","C","o","d","e">>,
     <<"p","o","s","t","a","l","_","c","o","d","e">> >>

\* new RegExp(`^${field}$`, 'i')
FieldPattern(field) == RegExp(<<"^">> \o field \o <<"$">>, TRUE, FALSE, FALSE)

\* the template string has a valid pattern as its value
ValidField(field) == ValidPattern(<<"^">> \o field \o <<"$">>)

\* A MaskingConfig as a caller writes it: every option may be left out.
MaskingOptions(hasEnabled, enabled, hasDefaultMask, defaultMask, hasRules, rules, hasSensitiveFields, sensitiveFields, hasCustomMasker, customMasker) ==
  [hasEnabled |-> hasEnabled, enabled |-> enabled,
   hasDefaultMask |-> hasDefaultMask, defaultMask |-> defaultMask,
   hasRules |-> hasRules, rules |-> rules,
   hasSensitiveFields |-> hasSensitiveFields, sensitiveFields |-> sensitiveFields,
   hasCustomMasker |-> hasCustomMasker, customMasker |-> customMasker]

\* {}
NoOptions == MaskingOptions(FALSE, TRUE, FALSE, <<>>, FALSE, <<>>, FALSE, <<>>, FALSE, "null")

\* this.config = { enabled: true, defaultMask: '***', rules: [], sensitiveFields: [...],
\*                 customMasker: null, ...config }
DataMaskerConfig(options) ==
  [enabled         |-> IF options.hasEnabled THEN options.enabled ELSE TRUE,
   defaultMask     |-> IF options.hasDefaultMask THEN options.defaultMask ELSE S.stars,
   rules           |-> IF options.hasRules THEN options.rules ELSE <<>>,
   sensitiveFields |-> IF options.hasSensitiveFields THEN options.sensitiveFields
                       ELSE DefaultSensitiveFields,
   customMasker    |-> IF options.hasCustomMasker THEN options.customMasker ELSE "null"]

\* this.config.sensitiveFields.map(field => new RegExp(`^${field}$`, 'i'))
CompileFields(fields) == [i \in 1..Len(fields) |-> FieldPattern(fields[i])]

\* A reference to one of the two arrays of this.config: an array is an object,
\* and whoever holds the reference reads and writes the masker's own array.
ArrayOf(prop) == [ref |-> prop]

\* getMaskingConfig: { ...this.config }, a new object (id) with the property
\* values of this.config; those of rules and sensitiveFields are the arrays
\* themselves, not copies of them
getMaskingConfig(config, id) ==
  [id |-> id, enabled |-> config.enabled, defaultMask |-> config.defaultMask,
   rules |-> ArrayOf("rules"), sensitiveFields |-> ArrayOf("sensitiveFields"),
   customMasker |-> config.customMasker]

\* the content of the array a reference leads to
Deref(config, a) == IF a.ref = "rules" THEN config.rules ELSE config.sensitiveFields

\* a.push(x) through a reference: this.config after it
PushTo(config, a, x) ==
  IF a.ref = "rules" THEN [config EXCEPT !.rules = Append(@, x)]
  ELSE [config EXCEPT !.sensitiveFields = Append(@, x)]

\* Array.prototype.indexOf, 0-based, -1 when absent
IndexOf(xs, x) ==
  IF \E i \in 1..Len(xs) : xs[i] = x
  THEN (CHOOSE i \in 1..Len(xs) : xs[i] = x /\ \A j \in 1..(i - 1) : xs[j] # x) - 1
  ELSE -1

\* Array.prototype.splice(index, 1)
Splice1(xs, index) == SubSeq(xs, 1, index) \o SubSeq(xs, index + 2, Len(xs))


(***************************************************************************)
(* Object identity.  Containers(v) are the objects reachable from v.  What *)
(* a call has stored into an object that the caller also holds is seen by  *)
(* the caller: AfterCall(arg, out) is the caller's argument once a call    *)
(* that built out has returned (an object of out with the identity of an   *)
(* object of arg is that object, with the content out gave it).            *)
(***************************************************************************)
IsContainer(v) == v.t \in {"obj", "arr", "date"}

RECURSIVE Containers(_)
Containers(v) ==
  CASE v.t = "obj" -> {v} \cup UNION {Containers(v.es[i].v) : i \in 1..Len(v.es)}
    [] v.t = "arr" -> {v} \cup UNION {Containers(v.xs[i]) : i \in 1..Len(v.xs)}
    [] v.t = "date" -> {v}
    [] OTHER -> {}

Ids(v) == {c.id : c \in Containers(v)}

RECURSIVE Rewritten(_, _)
Rewritten(v, written) ==
  IF IsContainer(v) /\ \E w \in written : w.id = v.id /\ w # v
  THEN CHOOSE w \in written : w.id = v.id /\ w # v
  ELSE CASE v.t = "obj" -> Obj(v.id, [i \in 1..Len(v.es) |->
                                        Entry(v.es[i].k, Rewritten(v.es[i].v, written))])
         [] v.t = "arr" -> Arr(v.id, [i \in 1..Len(v.xs) |-> Rewritten(v.xs[i], written)])
         [] OTHER -> v

AfterCall(arg, out) == Rewritten(arg, Containers(out))

(***************************************************************************)
(* HermesTrace: the logger                                                 *)
(***************************************************************************)
\* LogLevel: the values of the enum are these strings
LogLevelValue ==
  [DEBUG |-> <<"d","e","b","u","g">>, INFO |-> <<"i","n","f","o">>, WARN |-> <<"w","a","r","n">>,
   ERROR |-> <<"e","r","r","o","r">>, FATAL |-> <<"f","a","t","a","l">>]

\* const levels = [LogLevel.DEBUG, LogLevel.INFO, LogLevel.WARN, LogLevel.ERROR, LogLevel.FATAL]
levels == <<LogLevelValue.DEBUG, LogLevelValue.INFO, LogLevelValue.WARN,
            LogLevelValue.ERROR, LogLevelValue.FATAL>>

\* a level test that lets through the levels above the configured one only
shouldLogAbove(configLevel, level) == IndexOf(levels, level) > IndexOf(levels, configLevel)

shouldLog(configLevel, level) == IndexOf(levels, level) >= IndexOf(levels, configLevel)

\* a >= b on strings of lower-case letters: the comparison of JavaScript, by code unit
CharCode(c) == CHOOSE i \in 1..Len(LowerChars) : LowerChars[i] = c

RECURSIVE StringGE(_, _)
StringGE(a, b) ==
  IF b = <<>> THEN TRUE
  ELSE IF a = <<>> THEN FALSE
  ELSE IF CharCode(Head(a)) # CharCode(Head(b)) THEN CharCode(Head(a)) > CharCode(Head(b))
  ELSE StringGE(Tail(a), Tail(b))

\* an optional string property
NoString == [has |-> FALSE, s |-> <<>>]
SomeString(s) == [has |-> TRUE, s |-> s]

\* an Error object: message and stack are own properties that are not enumerable
ErrorObject(id, message, stack) ==
  [t |-> "error", id |-> id, isError |-> TRUE, message |-> message, stack |-> SomeString(stack)]

\* { ...error, message }: the spread copies the own enumerable properties, of
\* which an Error has none
SpreadError(error, message) ==
  [t |-> "error", id |-> NewId, isError |-> FALSE, message |-> message, stack |-> NoString]

\* { ...a, ...b } on the entries of two mappings
RECURSIVE AssignAll(_, _, _)
AssignAll(es, from, k) ==
  IF k > Len(from) THEN es
  ELSE AssignAll(SetProperty(es, from[k].k, from[k].v), from, k + 1)

Spread2(a, b) == AssignAll(AssignAll(<<>>, a, 1), b, 1)


\* the identities of the objects a log call creates: the raw entry and its context
RawEntryId == 20
RawContextId == 21

\* rawEntry of log.  context is the entries of the caller's context (none when
\* it is undefined), error is the Error given or Undefined.  (No window and no
\* navigator: getCurrentUrl and getUserAgent add nothing.)
RawEntry(lg, level, message, context, tags, error) ==
  [id |-> RawEntryId, level |-> level, message |-> message, timestamp |-> "now",
   context |-> Obj(RawContextId, Spread2(lg.context, context)),
   error |-> error, tags |-> tags, sessionId |-> S.session,
   stack |-> IF lg.captureStackTrace /\ error.t = "error" THEN error.stack ELSE NoString]

\* this.config.masking?.enabled is truthy
MaskingEnabled(lg) == lg.masking.hasEnabled /\ lg.masking.enabled

\* an applyMasking that leaves the error as it is
applyMaskingNoError(lg, config, patterns, li, entry) ==
  IF ~MaskingEnabled(lg) THEN [entry |-> entry, li |-> li, tr |-> <<>>]
  ELSE Let(maskData(config, patterns, li, Str(entry.message), <<>>), LAMBDA m1 :
       Let(maskData(config, patterns, m1.li, entry.context, <<>>), LAMBDA m2 :
         [entry |-> [entry EXCEPT !.id = NewId, !.message = m1.v.s, !.context = m2.v],
          li |-> m2.li, tr |-> m2.tr]))

\* applyMasking: the entry returned and the lastIndex left.  The three calls
\* of maskData run in this order; only the one on the context can reach a rule.
applyMasking(lg, config, patterns, li, entry) ==
  IF ~MaskingEnabled(lg) THEN [entry |-> entry, li |-> li, tr |-> <<>>]
  ELSE Let(IF entry.message # <<>>
           THEN maskData(config, patterns, li, Str(entry.message), <<>>)
           ELSE Result(Str(entry.message), li, <<>>), LAMBDA m1 :
       Let(maskData(config, patterns, m1.li, entry.context, <<>>), LAMBDA m2 :
       Let(IF entry.error.t = "error" /\ entry.error.message # <<>>
           THEN maskData(config, patterns, m2.li, Str(entry.error.message), <<>>)
           ELSE Result(Undefined, m2.li, <<>>), LAMBDA m3 :
         [entry |-> [entry EXCEPT
                       !.id = NewId,
                       !.message = m1.v.s,
                       !.context = m2.v,
                       !.error = IF entry.error.t = "error" /\ entry.error.message # <<>>
                                 THEN SpreadError(entry.error, m3.v.s)
                                 ELSE entry.error],
          li |-> m3.li, tr |-> m2.tr])))

\* a stack added at every level from WARN up in the order of shouldLog
WithCapturedStackByOrder(lg, level, entry) ==
  IF ~(entry.stack.has /\ entry.stack.s # <<>>) /\ lg.captureStackTrace
       /\ shouldLog(LogLevelValue.WARN, level)
  THEN [entry EXCEPT !.stack = SomeString(S.trace)]
  ELSE entry

\* the stack log adds to the entry it got from applyMasking
WithCapturedStack(lg, level, entry) ==
  IF ~(entry.stack.has /\ entry.stack.s # <<>>) /\ lg.captureStackTrace /\ StringGE(level, LogLevelValue.WARN)
  THEN [entry EXCEPT !.stack = SomeString(S.trace)]
  ELSE entry


\* the raw entry once log has built out, the entry it hands to the transports
EntryAfter(raw, out) ==
  IF out.id = raw.id THEN out
  ELSE [raw EXCEPT !.context = AfterCall(raw.context, out.context),
                   !.error = IF out.error.t = "error" /\ raw.error.t = "error"
                                /\ out.error.id = raw.error.id
                             THEN out.error ELSE raw.error]

\* A HermesTraceConfig as a caller writes it (the options this model varies).
LoggerOptions(hasLevel, level, hasMasking, masking, context) ==
  [hasLevel |-> hasLevel, level |-> level, hasMasking |-> hasMasking, masking |-> masking,
   context |-> context]

\* this.config = { level: LogLevel.INFO, ..., captureStackTrace: true,
\*                 masking: { enabled: true }, ...config }
HermesTraceConfig(options) ==
  [level             |-> IF options.hasLevel THEN options.level ELSE LogLevelValue.INFO,
   context           |-> options.context,
   captureStackTrace |-> TRUE,
   masking           |-> IF options.hasMasking THEN options.masking
                         ELSE [NoOptions EXCEPT !.hasEnabled = TRUE, !.enabled = TRUE],
   transports        |-> <<"t1", "t2">>]

(***************************************************************************)
(* Bounds and the values the calls are made with                           *)
(***************************************************************************)
\* configuration calls (addSensitiveField, removeSensitiveField, addMaskingRule,
\* setCustomMasker, getMaskingConfig) and writes through a snapshot in one run
MaxMutations == 2


\* { enabled: true, defaultMask: '***', sensitiveFields: ['password', 'secret'] }
TestOptions ==
  [NoOptions EXCEPT !.hasEnabled = TRUE, !.enabled = TRUE,
                    !.hasDefaultMask = TRUE, !.defaultMask = S.stars,
                    !.hasSensitiveFields = TRUE, !.sensitiveFields = <<S.password, S.secret>>]

\* { enabled: true, sensitiveFields: ['password', 'ssn', 'creditCard'] }
ReadmeOptions ==
  [NoOptions EXCEPT !.hasEnabled = TRUE, !.enabled = TRUE,
                    !.hasSensitiveFields = TRUE,
                    !.sensitiveFields = <<S.password, S.ssn, S.creditCard>>]

\* { email: 'user@example.com', password: 'secret123', username: 'john_doe' }
ReadmeContext ==
  <<Entry(S.email, Str(S.user_mail)), Entry(S.password, Str(S.secret123)),
    Entry(S.username, Str(S.john_doe))>>

MaskingOptionsSet ==
  { TestOptions, ReadmeOptions,
    \* { sensitiveFields: ['password', '$id'] }
    [NoOptions EXCEPT !.hasSensitiveFields = TRUE, !.sensitiveFields = <<S.password, S.dollar_id>>],
    \* { enabled: false }
    [NoOptions EXCEPT !.hasEnabled = TRUE, !.enabled = FALSE],
    \* { enabled: true, defaultMask: '*', rules: [RuleTable[3], RuleTable[1]] }
    [NoOptions EXCEPT !.hasEnabled = TRUE, !.enabled = TRUE,
                      !.hasDefaultMask = TRUE, !.defaultMask = S.star,
                      !.hasRules = TRUE, !.rules = <<3, 1>>] }

LoggerOptionsSet ==
  { LoggerOptions(FALSE, LogLevelValue.INFO, FALSE, NoOptions, <<>>) }
  \cup { LoggerOptions(FALSE, LogLevelValue.INFO, TRUE, mo, <<>>) : mo \in MaskingOptionsSet }
  \cup { LoggerOptions(TRUE, LogLevelValue.WARN, TRUE, TestOptions,
                       <<Entry(S.user, Str(S.john_mail))>>) }

\* the names addSensitiveField and removeSensitiveField are called with
AddedFields == {S.username, S.dollar_id, S.star_key}
RemovedFields == {S.password}

\* { user: { profile: { password: 'secret123', name: 'John' } } }
D_nested ==
  Obj(1, <<Entry(S.user, Obj(2, <<Entry(S.profile,
             Obj(3, <<Entry(S.password, Str(S.secret123)), Entry(S.name, Str(S.John))>>))>>))>>)

\* [{ password: 'secret1' }, { password: 'secret2', username: 'user' }]
D_array ==
  Arr(1, <<Obj(2, <<Entry(S.password, Str(S.secret1))>>),
           Obj(3, <<Entry(S.password, Str(S.secret2)), Entry(S.username, Str(S.user))>>)>>)

\* { PASSWORD: 'secret1', Password: 'secret1', password: 'secret1', $id: 'secret1' }
D_cases ==
  Obj(1, <<Entry(S.PASSWORD, Str(S.secret1)), Entry(S.Password, Str(S.secret1)),
           Entry(S.password, Str(S.secret1)), Entry(S.dollar_id, Str(S.secret1))>>)

\* { access_token: 'abc123', token: 'x', list: [{ token: 'x' }], other_field: 'normal' }
D_tokens ==
  Obj(1, <<Entry(S.access_token, Str(S.abc123)), Entry(S.token, Str(S.x)),
           Entry(S.list, Arr(2, <<Obj(3, <<Entry(S.token, Str(S.x))>>)>>)),
           Entry(S.other_field, Str(S.normal))>>)

\* { password: { secret: 'x', list: [1] }, count: 5, when: new Date(), nothing: null,
\*   list: [1, 'a@b.com', true, undefined] }
D_mixed ==
  Obj(1, <<Entry(S.password, Obj(2, <<Entry(S.secret, Str(S.x)), Entry(S.list, Arr(3, <<Num(1)>>))>>)),
           Entry(<<"c","o","u","n","t">>, Num(5)), Entry(<<"w","h","e","n">>, DateV(4)), Entry(<<"n","o","t","h","i","n","g">>, Null),
           Entry(S.list, Arr(5, <<Num(1), Str(<<"a","@","b",".","c","o","m">>), Bool(TRUE), Undefined>>))>>)

\* { special: 'secret data', normal: 'normal data', user: { password: 'x' } }
D_custom ==
  Obj(1, <<Entry(S.special, Str(<<"s","e","c","r","e","t"," ","d","a","t","a">>)), Entry(S.normal, Str(S.normal_data)),
           Entry(S.user, Obj(2, <<Entry(S.password, Str(S.x))>>))>>)

\* { password: 5, secret: true, token: new Date(), email: null, phone: undefined,
\*   address: [1], apiKey: 'abc123' }
D_secrets ==
  Obj(1, <<Entry(S.password, Num(5)), Entry(S.secret, Bool(TRUE)), Entry(S.token, DateV(2)),
           Entry(S.email, Null), Entry(<<"p","h","o","n","e">>, Undefined),
           Entry(<<"a","d","d","r","e","s","s">>, Arr(3, <<Num(1)>>)),
           Entry(<<"a","p","i","K","e","y">>, Str(S.abc123))>>)

\* { access_token: 'abc123' }
D_token == Obj(1, <<Entry(S.access_token, Str(S.abc123))>>)

DataSamples ==
  { Null, Undefined, Num(123), Bool(TRUE), DateV(1), Str(S.john_mail), Str(S.card),
    Str(<<"a","@","5","5","5","1","2","3","4",".","i","o">>),
    D_nested, D_array, D_cases, D_tokens, D_token, D_mixed, D_custom, D_secrets }
  \cup CyclicObjects

\* the levels log is called with
LoggedLevels == {LogLevelValue.DEBUG, LogLevelValue.INFO, LogLevelValue.WARN, LogLevelValue.ERROR}

\* the context and error arguments of a log call: log(level, message),
\* log(level, message, ReadmeContext), and
\* log(level, message, { password: 'secret123', email: 'john@example.com',
\*                       profile: { name: 'John' } }, undefined, new Error('boom 555-1234'))
LogArguments ==
  { [context |-> <<>>, error |-> Undefined],
    [context |-> ReadmeContext, error |-> Undefined],
    [context |-> <<Entry(S.password, Str(S.secret123)), Entry(S.email, Str(S.john_mail)),
                   Entry(S.profile, Obj(7, <<Entry(S.name, Str(S.John))>>))>>,
     error |-> ErrorObject(8, S.boom, S.errstack)] }


(***************************************************************************)
(* Transports.  A logger hands the entry of a log call to each registered  *)
(* transport in turn.  A buffering transport (LokiTransport,               *)
(* DatadogTransport) keeps the entries in BaseTransport.buffer; an entry   *)
(* is named here by its number in the order log built the entries.         *)
(* flush() runs up to its await inside the call that started it: the batch *)
(* it took is in flight until the promise of flushEntries settles.         *)
(***************************************************************************)
\* entries log builds in one run
MaxEntries == 3

\* this.config.bufferSize || 100
DefaultBufferSize == 100

\* the bufferSize a buffering transport is configured with
BufferSizes == {0, 2}

\* new LokiTransport({ url, bufferSize }): the fields of BaseTransport
BaseTransport(bufferSize) ==
  [config |-> [level |-> LogLevelValue.INFO, enabled |-> TRUE, bufferSize |-> bufferSize],
   buffer |-> <<>>]

\* BaseTransport.shouldLog(level)
TransportShouldLog(cfg, level) ==
  IF ~cfg.enabled THEN FALSE ELSE IndexOf(levels, level) >= IndexOf(levels, cfg.level)

\* this.buffer.unshift(...entries) of a flush that lost its batch
UnshiftNone(buffer, entries) == buffer

\* this.buffer.unshift(...entries)
Unshift(buffer, entries) == entries \o buffer

\* flush() up to its await: the buffer it leaves, and the batches handed to
\* flushEntries (none when the buffer was empty)
flush(buffer) ==
  IF Len(buffer) = 0 THEN [buffer |-> buffer, batches |-> <<>>]
  ELSE [buffer |-> <<>>, batches |-> <<buffer>>]

\* addToBuffer(entry)
addToBuffer(cfg, buffer, entry) ==
  IF Len(Append(buffer, entry)) >= (IF cfg.bufferSize # 0 THEN cfg.bufferSize ELSE DefaultBufferSize)
  THEN flush(Append(buffer, entry))
  ELSE [buffer |-> Append(buffer, entry), batches |-> <<>>]

\* LokiTransport.log(entry), for an entry of the level given
TransportLog(cfg, buffer, entry, level) ==
  IF ~TransportShouldLog(cfg, level) THEN [buffer |-> buffer, batches |-> <<>>]
  ELSE addToBuffer(cfg, buffer, entry)

\* a forEach whose callback lets the exception of transport.log through
RECURSIVE ForEachTransportUncaught(_, _, _, _)
ForEachTransportUncaught(transports, throwing, k, done) ==
  IF k > Len(transports) THEN [done EXCEPT !.returned = TRUE]
  ELSE IF k \in throwing THEN [done EXCEPT !.called = @ \cup {k}]
  ELSE ForEachTransportUncaught(transports, throwing, k + 1, [done EXCEPT !.called = @ \cup {k}])

\* this.transports.forEach(transport => { try { transport.log(entry); }
\*   catch (transportError) { console.error(`Transport ${transport.name} failed:`, ...); } })
\* throwing: the places of the transports whose log throws.  called: the places
\* of the transports whose log was called; failed: the names console.error got.
RECURSIVE ForEachTransport(_, _, _, _)
ForEachTransport(transports, throwing, k, done) ==
  IF k > Len(transports) THEN [done EXCEPT !.returned = TRUE]
  ELSE ForEachTransport(transports, throwing, k + 1,
         [done EXCEPT !.called = @ \cup {k},
                      !.failed = IF k \in throwing THEN Append(@, transports[k]) ELSE @])

\* the transports of a logger with a buffering transport between two mocks
\* { name, log: jest.fn() }
RegisteredTransports == <<"mock", "loki", "other">>

(***************************************************************************)
(* The state: one HermesTrace and the DataMasker it owns (maskData and the *)
(* configuration calls reach the same DataMasker a standalone user holds). *)
(***************************************************************************)
VARIABLES
  logger,                  \* HermesTrace.config
  config,                  \* DataMasker.config
  sensitiveFieldPatterns,  \* DataMasker.sensitiveFieldPatterns
  lastIndex,               \* lastIndex of the RegExp of each rule object
  inserted,                \* history: the rules in the order they were given
  mutations,               \* history: the number of configuration calls and snapshot writes made
  snapshots,               \* the objects getMaskingConfig has returned, as their holder has them
  call,                    \* the call in progress: its arguments and what it produced
  loki,                    \* a buffering transport: its config and its buffer
  inFlight,                \* the batches of the flushes awaiting flushEntries, in the order they started
  sent,                    \* the entries of the batches whose flushEntries resolved
  accepted,                \* history: the entries addToBuffer was given
  logged,                  \* history: the number of entries log has built
  event,                   \* what the transports saw of the last call or callback
  other                    \* a second DataMasker made from the options object of the first

maskingVars == <<config, sensitiveFieldPatterns, lastIndex, inserted, mutations, snapshots>>

transportVars == <<loki, inFlight, sent, accepted, logged, event>>

vars == <<logger, config, sensitiveFieldPatterns, lastIndex, inserted, mutations, snapshots, call,
          loki, inFlight, sent, accepted, logged, event, other>>

NoEvent == [op |-> "none"]

NoInstance == [exists |-> FALSE]

Idle == [op |-> "idle"]

\* new HermesTrace(options), which runs new DataMasker(this.config.masking);
\* its transports are two mocks, and a buffering transport constructed beside
\* it is registered with no logger
Init ==
  \E options \in LoggerOptionsSet :
    /\ logger = HermesTraceConfig(options)
    /\ config = DataMaskerConfig(HermesTraceConfig(options).masking)
    /\ sensitiveFieldPatterns =
         CompileFields(DataMaskerConfig(HermesTraceConfig(options).masking).sensitiveFields)
    /\ lastIndex = [r \in RuleIds |-> 0]
    /\ inserted = DataMaskerConfig(HermesTraceConfig(options).masking).rules
    /\ mutations = 0
    /\ snapshots = <<>>
    /\ call = Idle
    /\ loki = BaseTransport(0)
    /\ inFlight = <<>>
    /\ sent = <<>>
    /\ accepted = {}
    /\ logged = 0
    /\ event = NoEvent
    /\ other = NoInstance

\* DataMasker.maskData(data): it returns its result or throws
MaskData(data) ==
  /\ call = Idle
  /\ \E r \in {maskData(config, sensitiveFieldPatterns, lastIndex, data, <<>>)} :
       /\ lastIndex' = r.li
       /\ call' = IF r.v = Thrown
                  THEN [op |-> "maskData throws", data |-> data, error |-> r.v.error,
                        tr |-> r.tr, li |-> lastIndex]
                  ELSE [op |-> "maskData", data |-> data, after |-> AfterCall(data, r.v),
                        result |-> r.v, tr |-> r.tr, li |-> lastIndex]
  /\ UNCHANGED <<logger, config, sensitiveFieldPatterns, inserted, mutations, snapshots>>

\* HermesTrace.log(level, message, context, tags, error)
Log(level, message, context, error) ==
  /\ call = Idle
  /\ IF ~shouldLog(logger.level, level)
     THEN /\ call' = [op |-> "log", level |-> level, filtered |-> TRUE]
          /\ UNCHANGED lastIndex
     ELSE \E raw \in {RawEntry(logger, level, message, context, <<>>, error)} :
          \E m \in {applyMasking(logger, config, sensitiveFieldPatterns, lastIndex, raw)} :
          \E out \in {WithCapturedStack(logger, level, m.entry)} :
              /\ lastIndex' = m.li
              /\ call' = [op |-> "log", level |-> level, filtered |-> FALSE,
                          raw |-> raw, rawAfter |-> EntryAfter(raw, out),
                          tr |-> m.tr, li |-> lastIndex,
                          delivered |-> [i \in 1..Len(logger.transports) |-> out]]
  /\ UNCHANGED <<logger, config, sensitiveFieldPatterns, inserted, mutations, snapshots>>

\* addSensitiveField(field): the push on sensitiveFields comes before new RegExp,
\* which throws on an invalid pattern
AddSensitiveField(field) ==
  /\ call = Idle
  /\ mutations < MaxMutations
  /\ mutations' = mutations + 1
  /\ IF IndexOf(config.sensitiveFields, field) # -1
     THEN /\ UNCHANGED <<config, sensitiveFieldPatterns>>
          /\ call' = [op |-> "addSensitiveField", field |-> field, pushed |-> FALSE,
                      threw |-> FALSE]
     ELSE /\ config' = [config EXCEPT !.sensitiveFields = Append(@, field)]
          /\ IF ValidField(field)
             THEN /\ sensitiveFieldPatterns' = Append(sensitiveFieldPatterns, FieldPattern(field))
                  /\ call' = [op |-> "addSensitiveField", field |-> field, pushed |-> TRUE,
                              threw |-> FALSE]
             ELSE /\ UNCHANGED sensitiveFieldPatterns
                  /\ call' = [op |-> "addSensitiveField", field |-> field, pushed |-> TRUE,
                              threw |-> TRUE]
  /\ UNCHANGED <<logger, lastIndex, inserted, snapshots>>

\* removeSensitiveField(field): the patterns are compiled again from the list
\* that is left, and none is assigned when one of them does not compile
RemoveSensitiveField(field) ==
  /\ call = Idle
  /\ mutations < MaxMutations
  /\ mutations' = mutations + 1
  /\ LET index == IndexOf(config.sensitiveFields, field)
         left  == Splice1(config.sensitiveFields, index)
     IN  IF index > -1
         THEN /\ config' = [config EXCEPT !.sensitiveFields = left]
              /\ IF \A i \in 1..Len(left) : ValidField(left[i])
                 THEN /\ sensitiveFieldPatterns' = CompileFields(left)
                      /\ call' = [op |-> "removeSensitiveField", field |-> field, threw |-> FALSE]
                 ELSE /\ UNCHANGED sensitiveFieldPatterns
                      /\ call' = [op |-> "removeSensitiveField", field |-> field, threw |-> TRUE]
         ELSE /\ UNCHANGED <<config, sensitiveFieldPatterns>>
              /\ call' = [op |-> "removeSensitiveField", field |-> field, threw |-> FALSE]
  /\ UNCHANGED <<logger, lastIndex, inserted, snapshots>>

\* addMaskingRule(rule)
AddMaskingRule(rule) ==
  /\ call = Idle
  /\ mutations < MaxMutations
  /\ Len(config.rules) < MaxRules
  /\ mutations' = mutations + 1
  /\ config' = [config EXCEPT !.rules = Append(@, rule)]
  /\ inserted' = Append(inserted, rule)
  /\ call' = [op |-> "addMaskingRule", rule |-> rule]
  /\ UNCHANGED <<logger, sensitiveFieldPatterns, lastIndex, snapshots>>

\* setCustomMasker(masker)
SetCustomMasker(masker) ==
  /\ call = Idle
  /\ mutations < MaxMutations
  /\ mutations' = mutations + 1
  /\ config' = [config EXCEPT !.customMasker = masker]
  /\ call' = [op |-> "setCustomMasker", masker |-> masker]
  /\ UNCHANGED <<logger, sensitiveFieldPatterns, lastIndex, inserted, snapshots>>

\* getMaskingConfig(), of the DataMasker or forwarded by the logger
GetMaskingConfig ==
  /\ call = Idle
  /\ mutations < MaxMutations
  /\ mutations' = mutations + 1
  /\ snapshots' = Append(snapshots, getMaskingConfig(config, Len(snapshots) + 1))
  /\ call' = [op |-> "getMaskingConfig", result |-> getMaskingConfig(config, Len(snapshots) + 1),
              before |-> config]
  /\ UNCHANGED <<logger, config, sensitiveFieldPatterns, lastIndex, inserted>>

\* the holder of snapshot s runs s.sensitiveFields.push(field)
SnapshotPushField(s, field) ==
  /\ call = Idle
  /\ mutations < MaxMutations
  /\ mutations' = mutations + 1
  /\ config' = PushTo(config, snapshots[s].sensitiveFields, field)
  /\ call' = [op |-> "snapshot.sensitiveFields.push", field |-> field, before |-> config,
              patterns |-> sensitiveFieldPatterns]
  /\ UNCHANGED <<logger, sensitiveFieldPatterns, lastIndex, inserted, snapshots>>

\* the holder of snapshot s runs s.rules.push(rule)
SnapshotPushRule(s, rule) ==
  /\ call = Idle
  /\ mutations < MaxMutations
  /\ Len(config.rules) < MaxRules
  /\ mutations' = mutations + 1
  /\ config' = PushTo(config, snapshots[s].rules, rule)
  /\ inserted' = Append(inserted, rule)
  /\ call' = [op |-> "snapshot.rules.push", rule |-> rule, before |-> config,
              patterns |-> sensitiveFieldPatterns]
  /\ UNCHANGED <<logger, sensitiveFieldPatterns, lastIndex, snapshots>>

\* the call returns to its caller
Return ==
  /\ call # Idle
  /\ call' = Idle
  /\ UNCHANGED <<logger, config, sensitiveFieldPatterns, lastIndex, inserted, mutations, snapshots>>

Next ==
  \/ \E data \in DataSamples : MaskData(data) /\ UNCHANGED <<transportVars, other>>
  \/ \E level \in LoggedLevels, args \in LogArguments :
       Log(level, S.msg_login, args.context, args.error) /\ UNCHANGED <<transportVars, other>>
  \/ \E field \in AddedFields : AddSensitiveField(field) /\ UNCHANGED <<transportVars, other>>
  \/ \E field \in RemovedFields : RemoveSensitiveField(field) /\ UNCHANGED <<transportVars, other>>
  \/ \E rule \in RuleIds : AddMaskingRule(rule) /\ UNCHANGED <<transportVars, other>>
  \/ \E masker \in CustomMaskers : SetCustomMasker(masker) /\ UNCHANGED <<transportVars, other>>
  \/ GetMaskingConfig /\ UNCHANGED <<transportVars, other>>
  \/ \E s \in 1..Len(snapshots), field \in AddedFields :
       SnapshotPushField(s, field) /\ UNCHANGED <<transportVars, other>>
  \/ \E s \in 1..Len(snapshots), rule \in RuleIds :
       SnapshotPushRule(s, rule) /\ UNCHANGED <<transportVars, other>>
  \/ Return /\ UNCHANGED <<transportVars, other>>

Spec == Init /\ [][Next]_vars


(***************************************************************************)
(* A logger with a buffering transport: log calls, setLevel, the flushes   *)
(* (size-triggered inside log, timer-triggered, manual) and the settling   *)
(* of flushEntries.  Callbacks run when no call is in progress.            *)
(***************************************************************************)
\* new HermesTrace({ transports: [mock, new LokiTransport({ url, bufferSize }), other] })
DispatchInit ==
  \E bufferSize \in BufferSizes :
    /\ logger = [HermesTraceConfig(LoggerOptions(FALSE, LogLevelValue.INFO, FALSE, NoOptions, <<>>))
                   EXCEPT !.transports = RegisteredTransports]
    /\ config = DataMaskerConfig(logger.masking)
    /\ sensitiveFieldPatterns = CompileFields(DataMaskerConfig(logger.masking).sensitiveFields)
    /\ lastIndex = [r \in RuleIds |-> 0]
    /\ inserted = <<>>
    /\ mutations = 0
    /\ snapshots = <<>>
    /\ call = Idle
    /\ loki = BaseTransport(bufferSize)
    /\ inFlight = <<>>
    /\ sent = <<>>
    /\ accepted = {}
    /\ logged = 0
    /\ event = NoEvent
    /\ other = NoInstance

\* HermesTrace.log(level, message) with the transports' part of it: the entry
\* goes to every transport, and LokiTransport.log puts it into the buffer and
\* starts a flush when the buffer has reached bufferSize
DispatchLog(level, throwing) ==
  /\ logged < MaxEntries
  /\ Log(level, S.msg_login, <<>>, Undefined)
  /\ IF call'.filtered
     THEN /\ event' = [op |-> "log", called |-> {}, failed |-> <<>>, returned |-> TRUE]
          /\ UNCHANGED <<loki, inFlight, sent, accepted, logged>>
     ELSE \E d \in {ForEachTransport(logger.transports, throwing, 1,
                                     [called |-> {}, failed |-> <<>>, returned |-> FALSE])} :
          \E t \in {IF 2 \in d.called
                    THEN TransportLog(loki.config, loki.buffer, logged + 1, level)
                    ELSE [buffer |-> loki.buffer, batches |-> <<>>]} :
            /\ logged' = logged + 1
            /\ loki' = [loki EXCEPT !.buffer = t.buffer]
            /\ inFlight' = inFlight \o t.batches
            /\ accepted' = IF 2 \in d.called /\ TransportShouldLog(loki.config, level)
                           THEN accepted \cup {logged + 1} ELSE accepted
            /\ event' = [op |-> "log", entry |-> logged + 1, called |-> d.called,
                         failed |-> d.failed, returned |-> d.returned]
            /\ UNCHANGED sent

\* HermesTrace.setLevel(level)
SetLevel(level) ==
  /\ call = Idle
  /\ logger' = [logger EXCEPT !.level = level]
  /\ event' = [op |-> "setLevel"]
  /\ UNCHANGED <<maskingVars, call, loki, inFlight, sent, accepted, logged>>

\* the callback of startFlushTimer
TimerFlush ==
  /\ call = Idle
  /\ Len(loki.buffer) > 0
  /\ loki' = [loki EXCEPT !.buffer = flush(loki.buffer).buffer]
  /\ inFlight' = inFlight \o flush(loki.buffer).batches
  /\ event' = [op |-> "timer"]
  /\ UNCHANGED <<logger, maskingVars, call, sent, accepted, logged>>

\* transport.flush(), up to its await
Flush ==
  /\ call = Idle
  /\ loki' = [loki EXCEPT !.buffer = flush(loki.buffer).buffer]
  /\ inFlight' = inFlight \o flush(loki.buffer).batches
  /\ event' = [op |-> "flush"]
  /\ UNCHANGED <<logger, maskingVars, call, sent, accepted, logged>>

\* await this.flushEntries(entries) of the i-th flush in flight resolves
FlushEntriesResolves(i) ==
  /\ call = Idle
  /\ inFlight' = Splice1(inFlight, i - 1)
  /\ sent' = sent \o inFlight[i]
  /\ event' = [op |-> "resolved", batch |-> inFlight[i]]
  /\ UNCHANGED <<logger, maskingVars, call, loki, accepted, logged>>

\* await this.flushEntries(entries) of the i-th flush in flight rejects:
\* catch (error) { console.error(...); this.buffer.unshift(...entries); }
FlushEntriesRejects(i) ==
  /\ call = Idle
  /\ inFlight' = Splice1(inFlight, i - 1)
  /\ loki' = [loki EXCEPT !.buffer = Unshift(@, inFlight[i])]
  /\ event' = [op |-> "rejected", batch |-> inFlight[i]]
  /\ UNCHANGED <<logger, maskingVars, call, sent, accepted, logged>>

\* the log call returns to its caller
DispatchReturn ==
  /\ Return
  /\ event' = NoEvent
  /\ UNCHANGED <<loki, inFlight, sent, accepted, logged>>

DispatchNext ==
  \/ \E level \in {levels[i] : i \in 1..Len(levels)}, throwing \in SUBSET {1, 3} :
       DispatchLog(level, throwing) /\ UNCHANGED other
  \/ \E level \in {levels[i] : i \in 1..Len(levels)} : SetLevel(level) /\ UNCHANGED other
  \/ TimerFlush /\ UNCHANGED other
  \/ Flush /\ UNCHANGED other
  \/ \E i \in 1..Len(inFlight) : FlushEntriesResolves(i) /\ UNCHANGED other
  \/ \E i \in 1..Len(inFlight) : FlushEntriesRejects(i) /\ UNCHANGED other
  \/ DispatchReturn /\ UNCHANGED other

DispatchSpec == DispatchInit /\ [][DispatchNext]_vars


(***************************************************************************)
(* Two DataMasker instances made from one options object: the masker of    *)
(* the logger, and a second one made by new DataMasker(options) or, inside *)
(* createChild, by new HermesTrace({ ...this.config, ... }).  The          *)
(* constructor spreads the options into this.config, so an array the       *)
(* options object holds (rules, sensitiveFields) is the array of both      *)
(* instances; an array the options leave out is made anew for each.        *)
(***************************************************************************)
\* { enabled: true, rules: [], sensitiveFields: ['password'] }
SharedOptions ==
  [NoOptions EXCEPT !.hasEnabled = TRUE, !.enabled = TRUE, !.hasRules = TRUE, !.rules = <<>>,
                    !.hasSensitiveFields = TRUE, !.sensitiveFields = <<S.password>>]

InstanceOptionsSet ==
  { SharedOptions, TestOptions, [NoOptions EXCEPT !.hasEnabled = TRUE, !.enabled = TRUE] }

\* this.config of an instance, given what this.config of the instance beside
\* it has become: the arrays that came with the options are the same objects
SeenBy(options, mine, theirs) ==
  [mine EXCEPT !.rules = IF options.hasRules THEN theirs.rules ELSE @,
               !.sensitiveFields = IF options.hasSensitiveFields THEN theirs.sensitiveFields
                                   ELSE @]

\* the second instance once this.config of the first has become theirs
OtherSeeing(options, instance, theirs) ==
  IF instance.exists
  THEN [instance EXCEPT !.config = SeenBy(options, instance.config, theirs)]
  ELSE instance

InstancesInit ==
  \E masking \in InstanceOptionsSet :
    /\ logger = HermesTraceConfig(LoggerOptions(FALSE, LogLevelValue.INFO, TRUE, masking, <<>>))
    /\ config = DataMaskerConfig(masking)
    /\ sensitiveFieldPatterns = CompileFields(DataMaskerConfig(masking).sensitiveFields)
    /\ lastIndex = [r \in RuleIds |-> 0]
    /\ inserted = <<>>
    /\ mutations = 0
    /\ snapshots = <<>>
    /\ call = Idle
    /\ loki = BaseTransport(0)
    /\ inFlight = <<>>
    /\ sent = <<>>
    /\ accepted = {}
    /\ logged = 0
    /\ event = NoEvent
    /\ other = NoInstance

\* new DataMasker(options) with the options object of the first instance, as
\* it is by now; how: by the caller ("new") or inside createChild
NewDataMasker(how) ==
  /\ call = Idle
  /\ ~other.exists
  /\ \E c \in {SeenBy(logger.masking, DataMaskerConfig(logger.masking), config)} :
       IF \A i \in 1..Len(c.sensitiveFields) : ValidField(c.sensitiveFields[i])
       THEN /\ other' = [exists |-> TRUE, how |-> how, config |-> c,
                         sensitiveFieldPatterns |-> CompileFields(c.sensitiveFields), own |-> 0]
            /\ call' = [op |-> how, threw |-> FALSE]
       ELSE /\ UNCHANGED other
            /\ call' = [op |-> how, threw |-> TRUE]
  /\ UNCHANGED <<logger, maskingVars, transportVars>>

\* addSensitiveField(field) on the second instance
OtherAddSensitiveField(field) ==
  /\ call = Idle
  /\ other.exists /\ mutations < MaxMutations
  /\ mutations' = mutations + 1
  /\ IF IndexOf(other.config.sensitiveFields, field) # -1
     THEN /\ other' = [other EXCEPT !.own = @ + 1]
          /\ call' = [op |-> "other.addSensitiveField", field |-> field, pushed |-> FALSE,
                      threw |-> FALSE]
     ELSE /\ other' = [other EXCEPT !.own = @ + 1,
                                    !.config.sensitiveFields = Append(@, field),
                                    !.sensitiveFieldPatterns =
                                       IF ValidField(field) THEN Append(@, FieldPattern(field))
                                       ELSE @]
          /\ call' = [op |-> "other.addSensitiveField", field |-> field, pushed |-> TRUE,
                      threw |-> ~ValidField(field)]
  /\ config' = SeenBy(logger.masking, config, other'.config)
  /\ UNCHANGED <<logger, sensitiveFieldPatterns, lastIndex, inserted, snapshots, transportVars>>

\* addMaskingRule(rule) on the second instance
OtherAddMaskingRule(rule) ==
  /\ call = Idle
  /\ other.exists /\ mutations < MaxMutations
  /\ mutations' = mutations + 1
  /\ Len(other.config.rules) < MaxRules
  /\ other' = [other EXCEPT !.own = @ + 1, !.config.rules = Append(@, rule)]
  /\ call' = [op |-> "other.addMaskingRule", rule |-> rule]
  /\ config' = SeenBy(logger.masking, config, other'.config)
  /\ UNCHANGED <<logger, sensitiveFieldPatterns, lastIndex, inserted, snapshots, transportVars>>

\* setCustomMasker(masker) on the second instance
OtherSetCustomMasker(masker) ==
  /\ call = Idle
  /\ other.exists /\ mutations < MaxMutations
  /\ mutations' = mutations + 1
  /\ other' = [other EXCEPT !.own = @ + 1, !.config.customMasker = masker]
  /\ call' = [op |-> "other.setCustomMasker", masker |-> masker]
  /\ UNCHANGED <<logger, config, sensitiveFieldPatterns, lastIndex, inserted, snapshots,
                 transportVars>>

InstancesNext ==
  \/ \E field \in AddedFields :
       /\ AddSensitiveField(field)
       /\ other' = OtherSeeing(logger.masking, other, config')
       /\ UNCHANGED transportVars
  \/ \E field \in RemovedFields :
       /\ RemoveSensitiveField(field)
       /\ other' = OtherSeeing(logger.masking, other, config')
       /\ UNCHANGED transportVars
  \/ \E rule \in RuleIds :
       /\ AddMaskingRule(rule)
       /\ other' = OtherSeeing(logger.masking, other, config')
       /\ UNCHANGED transportVars
  \/ \E masker \in CustomMaskers :
       SetCustomMasker(masker) /\ UNCHANGED <<transportVars, other>>
  \/ \E how \in {"new", "createChild"} : NewDataMasker(how)
  \/ \E field \in AddedFields : OtherAddSensitiveField(field)
  \/ \E rule \in RuleIds : OtherAddMaskingRule(rule)
  \/ \E masker \in CustomMaskers : OtherSetCustomMasker(masker)
  \/ Return /\ UNCHANGED <<transportVars, other>>

InstancesSpec == InstancesInit /\ [][InstancesNext]_vars


(***************************************************************************)
(* What a call was given and what it gave back.  A maskData call masks its *)
(* argument; a log call that passes the level filter masks the merged      *)
(* context of its raw entry (the one maskData call of applyMasking that    *)
(* reaches maskObject).                                                     *)
(***************************************************************************)
Masked ==
  \/ call.op = "maskData" /\ config.enabled
  \/ call.op = "log" /\ ~call.filtered /\ MaskingEnabled(logger)

CallInput == IF call.op = "maskData" THEN call.data ELSE call.raw.context

CallOutput == IF call.op = "maskData" THEN call.result ELSE call.delivered[1].context

Decisions == {call.tr[i] : i \in 1..Len(call.tr)}

\* the paths of all the keys of all the mappings in v, at any depth
RECURSIVE KeyPaths(_, _)
KeyPaths(v, path) ==
  CASE v.t = "obj" ->
         UNION { {Append(path, KeyStep(v.es[i].k))}
                   \cup KeyPaths(v.es[i].v, Append(path, KeyStep(v.es[i].k)))
                 : i \in 1..Len(v.es) }
    [] v.t = "arr" -> UNION { KeyPaths(v.xs[i], Append(path, IndexStep(i))) : i \in 1..Len(v.xs) }
    [] OTHER -> {}

\* the value a path leads to
RECURSIVE ValueAt(_, _)
ValueAt(v, path) ==
  IF path = <<>> THEN v
  ELSE IF Head(path).i = 0 THEN ValueAt(Get(v, Head(path).k), Tail(path))
  ELSE ValueAt(v.xs[Head(path).i], Tail(path))

\* the key a key path ends with
LastKey(path) == path[Len(path)].k

\* the paths of the ancestors of a path
Ancestors(path) == {SubSeq(path, 1, n) : n \in 1..(Len(path) - 1)}

\* the key at path matched: maskObject took the rule or the sensitive branch
MatchedAt(path) == \E d \in Decisions : d.path = path /\ d.how \in {"rule", "sensitive"}

\* maskObject came to the key at path and decided on it
DecidedAt(path) == \E d \in Decisions : d.path = path

\* C1: with no custom masker, maskObject decides on a key (tries its rules and
\* the sensitive names on it) exactly when no ancestor key on its path
\* matched; it recurses into the value of a key exactly when neither a rule
\* nor a sensitive name answered for the key; and the value of a matched key
\* is replaced as a whole, by the rule's masking or by the sensitive-value
\* masking of the whole value, with nothing inside it decided on.
C1_NoDescentUnderMatch ==
  (Masked /\ config.customMasker = "null") =>
    /\ \A p \in KeyPaths(CallInput, <<>>) :
         DecidedAt(p) <=> ~\E q \in Ancestors(p) : MatchedAt(q)
    /\ \A d \in Decisions :
         /\ d.path \in KeyPaths(CallInput, <<>>)
         /\ d.how \in {"rule", "sensitive", "recurse"}
         /\ d.how = "recurse" <=>
              /\ findMatchingRule(config.rules, d.li, LastKey(d.path)).rule = 0
              /\ ~isSensitiveField(sensitiveFieldPatterns, LastKey(d.path))
         /\ d.how = "rule" =>
              /\ ValueAt(CallOutput, d.path) =
                   applyMaskingRule(config, ValueAt(CallInput, d.path), RuleTable[d.rule])
              /\ ~IsContainer(ValueAt(CallOutput, d.path))
         /\ d.how = "sensitive" =>
              /\ ValueAt(CallOutput, d.path) =
                   maskValue(ValueAt(CallInput, d.path), config.defaultMask)
              /\ ~IsContainer(ValueAt(CallOutput, d.path))

\* { user: { profile: { password: 'secret123', name: 'John' } } } has been
\* masked with password a sensitive name: only password is masked
C1_Witness ==
  /\ call.op = "maskData" /\ config.enabled /\ config.customMasker = "null"
  /\ call.data = D_nested
  /\ MatchedAt(<<KeyStep(S.user), KeyStep(S.profile), KeyStep(S.password)>>)
  /\ call.result =
       Obj(NewId, <<Entry(S.user, Obj(NewId, <<Entry(S.profile,
         Obj(NewId, <<Entry(S.password, Str(config.defaultMask)),
                      Entry(S.name, Str(S.John))>>))>>))>>)


\* a rule matches a key: the name of the rule is the key up to letter case, or
\* the regular expression of the rule matches somewhere in the key
RuleMatchesKey(r, key) == RuleTest(r, 0, key).res

\* a key is a stored sensitive name up to letter case
IsSensitiveName(key) ==
  \E i \in 1..Len(config.sensitiveFields) :
    ToLowerCase(config.sensitiveFields[i]) = ToLowerCase(key)

\* C2: with no custom masker, the value of every key that matches both a
\* masking rule of the list and a sensitive name is the value the masking of a
\* matching rule gives (its mask, partial, preserveLength), not the
\* sensitive-value masking with the default mask.
C2_RuleBeforeSensitive ==
  (Masked /\ config.customMasker = "null") =>
    \A d \in Decisions :
      ( /\ \E k \in 1..Len(config.rules) : RuleMatchesKey(config.rules[k], LastKey(d.path))
        /\ IsSensitiveName(LastKey(d.path)) )
      => /\ d.how = "rule"
         /\ \E k \in 1..Len(config.rules) :
              /\ RuleMatchesKey(config.rules[k], LastKey(d.path))
              /\ ValueAt(CallOutput, d.path) =
                   applyMaskingRule(config, ValueAt(CallInput, d.path),
                                    RuleTable[config.rules[k]])

\* { access_token: 'abc123' } has been masked under the rule
\* { field: /token/g, mask: '#', preserveLength: true } with access_token a
\* sensitive name, and the value is the default mask, not the rule's '######'
C2_SensitiveMaskingUsed ==
  /\ call.op = "maskData" /\ config.enabled /\ config.customMasker = "null"
  /\ call.data = D_token
  /\ config.rules = <<4>>
  /\ IsSensitiveName(S.access_token)
  /\ \E d \in Decisions : d.how = "sensitive"
  /\ call.result = Obj(NewId, <<Entry(S.access_token, Str(config.defaultMask))>>)
  /\ applyMaskingRule(config, Str(S.abc123), RuleTable[4]) = Str(Repeat(S.hash, 6))

\* the keys maskObject comes to when it recurses into no value: those of the
\* mapping given and of the mappings in the sequence given
TopKeyPaths(v) == {p \in KeyPaths(v, <<>>) : \A q \in Ancestors(p) : q[Len(q)].i # 0}

\* C3: with a custom masker set, maskObject asks it for every key of the
\* mapping it masks, and the value of the key in the result is what the custom
\* masker returned for (key, value), as it is: no rule is tried (the lastIndex
\* of every rule's RegExp is left alone), no sensitive-value masking, no
\* recursion and no string-pattern redaction is applied to it.
C3_CustomMaskerFinal ==
  (Masked /\ config.customMasker # "null") =>
    /\ \A p \in KeyPaths(CallInput, <<>>) : DecidedAt(p) <=> p \in TopKeyPaths(CallInput)
    /\ \A d \in Decisions :
         /\ d.how = "custom"
         /\ ValueAt(CallOutput, d.path) =
              CallCustomMasker(config.customMasker, LastKey(d.path), ValueAt(CallInput, d.path))
    /\ lastIndex = call.li

\* { special: 'secret data', normal: 'normal data', user: { password: 'x' } }
\* has been masked by the custom masker, with password a sensitive name: the
\* value of special is the masker's, the other two are the values given
C3_Witness ==
  /\ call.op = "maskData" /\ config.enabled /\ config.customMasker = "special"
  /\ call.data = D_custom
  /\ isSensitiveField(sensitiveFieldPatterns, S.password)
  /\ call.result =
       Obj(NewId, <<Entry(S.special, Str(S.CUSTOM_MASKED)),
                    Entry(S.normal, Str(S.normal_data)),
                    Entry(S.user, Obj(2, <<Entry(S.password, Str(S.x))>>))>>)

\* the places in the insertion order of the rules that match a key
MatchingPlaces(key) == {j \in 1..Len(inserted) : RuleMatchesKey(inserted[j], key)}

FirstPlace(places) == CHOOSE j \in places : \A k \in places : j <= k

\* C4: the rule list is the constructor's list followed by the rules added,
\* in the order of the addMaskingRule calls, and (with no custom masker) a
\* key that rules match is masked by the one of them that was inserted first.
C4_FirstInsertedWins ==
  /\ config.rules = inserted
  /\ (Masked /\ config.customMasker = "null") =>
       \A d \in Decisions :
         MatchingPlaces(LastKey(d.path)) # {} =>
           /\ d.how = "rule"
           /\ d.rule = inserted[FirstPlace(MatchingPlaces(LastKey(d.path)))]
           /\ ValueAt(CallOutput, d.path) =
                applyMaskingRule(config, ValueAt(CallInput, d.path), RuleTable[d.rule])

\* { access_token: 'abc123' } has been masked with the rules
\* [{ field: /token/g, ... }, { field: /.*_token$/, mask: '[TOKEN]' }], which
\* both match access_token, and the value is the second rule's '[TOKEN]'
C4_LaterRuleUsed ==
  /\ call.op = "maskData" /\ config.enabled /\ config.customMasker = "null"
  /\ call.data = D_token
  /\ inserted = <<4, 2>>
  /\ MatchingPlaces(S.access_token) = {1, 2}
  /\ call.result = Obj(NewId, <<Entry(S.access_token, Str(S.TOKEN))>>)


\* a log call has handed an entry to the transports
Delivered == call.op = "log" /\ ~call.filtered

\* C5: with masking enabled, every transport of a log call that passes the
\* level filter is handed an entry whose message is maskData of the message
\* given, whose context is maskData of the merged context and whose error
\* message is maskData of the message of the Error given; the entry is not the
\* raw entry and its context is not the merged context.
C5_MaskedBeforeTransports ==
  (Delivered /\ MaskingEnabled(logger)) =>
    \A i \in 1..Len(logger.transports) :
      /\ call.delivered[i].id # call.raw.id
      /\ call.delivered[i].message =
           maskData(config, sensitiveFieldPatterns, call.li, Str(call.raw.message), <<>>).v.s
      /\ call.delivered[i].context =
           maskData(config, sensitiveFieldPatterns, call.li, call.raw.context, <<>>).v
      /\ call.delivered[i].context.id # call.raw.context.id
      /\ call.raw.error.t = "error" =>
           call.delivered[i].error.message =
             maskData(config, sensitiveFieldPatterns, call.li,
                      Str(call.raw.error.message), <<>>).v.s

\* a log call with a context and an Error has passed the filter with masking
\* enabled: both transports got 'login j***n@example.com' for the message
\* 'login john@example.com', 'boom ***' for the error message 'boom 555-1234'
\* and a context whose password is not the one given
C5_Witness ==
  /\ Delivered /\ MaskingEnabled(logger) /\ config.customMasker = "null"
  /\ call.raw.message = S.msg_login
  /\ call.raw.error.t = "error" /\ call.raw.error.message = S.boom
  /\ Get(call.raw.context, S.password) = Str(S.secret123)
  /\ \A i \in 1..Len(logger.transports) :
       /\ call.delivered[i].message =
            <<"l","o","g","i","n"," ","j">> \o config.defaultMask
              \o <<"n","@","e","x","a","m","p","l","e",".","c","o","m">>
       /\ call.delivered[i].error.message = <<"b","o","o","m"," ">> \o config.defaultMask
       /\ Get(call.delivered[i].context, S.password) # Str(S.secret123)

\* C6: a logger whose masking configuration has no enabled property hands
\* the transports the entries a logger with enabled: true would.
C6_EnabledDefaultsToTrue ==
  (Delivered /\ ~logger.masking.hasEnabled) =>
    \A i \in 1..Len(logger.transports) :
      call.delivered[i] =
        WithCapturedStack(logger, call.level,
          applyMasking([logger EXCEPT !.masking.hasEnabled = TRUE, !.masking.enabled = TRUE],
                       config, sensitiveFieldPatterns, call.li, call.raw).entry)

\* a logger made with masking: { sensitiveFields: ['password', '$id'] } has
\* handed its transports the message, the password and the error message as
\* they were given, while its DataMasker has enabled: true
C6_DeliveredUnmasked ==
  /\ Delivered /\ ~logger.masking.hasEnabled /\ config.enabled
  /\ isSensitiveField(sensitiveFieldPatterns, S.password)
  /\ call.raw.error.t = "error"
  /\ \A i \in 1..Len(logger.transports) :
       /\ call.delivered[i].message = S.msg_login
       /\ Get(call.delivered[i].context, S.password) = Str(S.secret123)
       /\ call.delivered[i].error.message = S.boom

\* no object of out is an object of in
Fresh(out, in) == Ids(out) \cap Ids(in) = {}

RecursedAt(path) == \E d \in Decisions : d.path = path /\ d.how = "recurse"

\* out has the shape of in: the keys of a mapping, the length of a sequence,
\* and so on inside every value that maskData went into
RECURSIVE ShapeKept(_, _, _)
ShapeKept(in, out, path) ==
  CASE in.t = "obj" ->
         /\ out.t = "obj"
         /\ Len(out.es) = Len(in.es)
         /\ Keys(out.es) = Keys(in.es)
         /\ \A i \in 1..Len(in.es) :
              RecursedAt(Append(path, KeyStep(in.es[i].k))) =>
                ShapeKept(in.es[i].v, Get(out, in.es[i].k), Append(path, KeyStep(in.es[i].k)))
    [] in.t = "arr" ->
         /\ out.t = "arr"
         /\ Len(out.xs) = Len(in.xs)
         /\ \A i \in 1..Len(in.xs) : ShapeKept(in.xs[i], out.xs[i], Append(path, IndexStep(i)))
    [] OTHER -> TRUE

\* ys[k], ys[k + 1], ... are what maskData gives for xs[k], xs[k + 1], ...,
\* called one after the other from the lastIndex li
RECURSIVE ElementWise(_, _, _, _)
ElementWise(xs, ys, k, li) ==
  \/ k > Len(xs)
  \/ \E r \in {maskData(config, sensitiveFieldPatterns, li, xs[k], <<IndexStep(k)>>)} :
       /\ ys[k] = r.v
       /\ ElementWise(xs, ys, k + 1, r.li)

\* C8: the result for a mapping is a mapping with the same keys, none added
\* and none dropped, and the result for a sequence is a sequence of the same
\* length whose i-th element is maskData of the i-th element given; the same
\* holds of every mapping and sequence inside that maskData goes into.
C8_ShapeKept ==
  /\ (call.op = "maskData" \/ Delivered) => ShapeKept(CallInput, CallOutput, <<>>)
  /\ (call.op = "maskData" /\ call.data.t = "arr") =>
       /\ call.result.t = "arr"
       /\ Len(call.result.xs) = Len(call.data.xs)
       /\ ElementWise(call.data.xs, call.result.xs, 1, call.li)

\* [{ password: 'secret1' }, { password: 'secret2', username: 'user' }] has
\* been masked: two mappings with the keys given, in the order given, both
\* with another password
C8_Witness ==
  /\ call.op = "maskData" /\ config.enabled /\ config.customMasker = "null"
  /\ call.data = D_array
  /\ Len(call.result.xs) = 2
  /\ Keys(call.result.xs[1].es) = {S.password}
  /\ Keys(call.result.xs[2].es) = {S.password, S.username}
  /\ Get(call.result.xs[1], S.password) # Str(S.secret1)
  /\ Get(call.result.xs[2], S.password) # Str(S.secret2)
  /\ Get(call.result.xs[2], S.username) = Str(S.user)

\* null, undefined, a number, a boolean or a Date
IsPassThroughValue(v) == v.t \in {"null", "undefined", "num", "bool", "date"}

\* C9: maskData returns null, undefined, a number, a boolean and a Date as
\* they are, given as the argument or as the value of a key that maskObject
\* recurses into.
C9_ScalarsPassThrough ==
  (call.op = "maskData" \/ Delivered) =>
    /\ IsPassThroughValue(CallInput) => CallOutput = CallInput
    /\ \A d \in Decisions :
         (d.how = "recurse" /\ IsPassThroughValue(ValueAt(CallInput, d.path)))
           => ValueAt(CallOutput, d.path) = ValueAt(CallInput, d.path)

\* maskData(new Date()) has returned a new mapping with no keys
C9_DateBecomesEmptyMapping ==
  /\ call.op = "maskData" /\ config.enabled
  /\ call.data = DateV(1)
  /\ call.result = Obj(NewId, <<>>)

\* C10: with no custom masker, the value of every key that is a stored
\* sensitive name up to letter case, and that no rule masks, is the
\* sensitive-value masking of the value given (so that the case variants of
\* a key give the same masked value for the same value).
C10_CaseInsensitiveNames ==
  (Masked /\ config.customMasker = "null") =>
    \A d \in Decisions :
      (IsSensitiveName(LastKey(d.path)) /\ d.how # "rule") =>
        /\ d.how = "sensitive"
        /\ ValueAt(CallOutput, d.path) =
             maskValue(ValueAt(CallInput, d.path), config.defaultMask)

\* { PASSWORD: 'secret1', Password: 'secret1', password: 'secret1', $id: 'secret1' }
\* has been masked with the sensitive names password and $id and no rule:
\* the three passwords are the default mask and $id is the value given
C10_MetacharacterNameMissed ==
  /\ call.op = "maskData" /\ config.enabled /\ config.customMasker = "null"
  /\ config.rules = <<>>
  /\ call.data = D_cases
  /\ IsSensitiveName(S.password) /\ IsSensitiveName(S.dollar_id)
  /\ Get(call.result, S.PASSWORD) = Str(config.defaultMask)
  /\ Get(call.result, S.Password) = Str(config.defaultMask)
  /\ Get(call.result, S.password) = Str(config.defaultMask)
  /\ Get(call.result, S.dollar_id) = Str(S.secret1)

\* the holder of a snapshot has written to one of its lists
SnapshotWritten == call.op \in {"snapshot.sensitiveFields.push", "snapshot.rules.push"}

\* what a snapshot holds: its property values, the lists by their content
SnapshotContent(snap) ==
  [enabled |-> snap.enabled, defaultMask |-> snap.defaultMask,
   rules |-> Deref(config, snap.rules),
   sensitiveFields |-> Deref(config, snap.sensitiveFields),
   customMasker |-> snap.customMasker]

\* C11: a push on the sensitiveFields or the rules list of a snapshot that
\* getMaskingConfig returned leaves the masker's configuration and its
\* compiled patterns as they were; the snapshots returned are distinct
\* objects, and a snapshot holds the content of the configuration at the time
\* it is returned.
C11_DefensiveCopy ==
  /\ SnapshotWritten => (config = call.before /\ sensitiveFieldPatterns = call.patterns)
  /\ \A i, j \in 1..Len(snapshots) : i # j => snapshots[i].id # snapshots[j].id
  /\ call.op = "getMaskingConfig" => SnapshotContent(call.result) = config

\* the holder of a snapshot has pushed 'username' onto its sensitiveFields,
\* and the masker's own list, which did not hold the name, now holds it, with
\* no pattern compiled for it
C11_MaskerListGrown ==
  /\ call.op = "snapshot.sensitiveFields.push" /\ call.field = S.username
  /\ IndexOf(call.before.sensitiveFields, S.username) = -1
  /\ IndexOf(config.sensitiveFields, S.username) # -1
  /\ sensitiveFieldPatterns = call.patterns
  /\ ~isSensitiveField(sensitiveFieldPatterns, S.username)

\* C12: masking the value of a maskData call again, with no call in between,
\* gives a result equal to the one the call gave; and no maskData or log
\* call changes the rule list, the sensitive names, the custom masker or the
\* compiled patterns.
C12_MaskingOnlyReads ==
  /\ [](call.op = "maskData" =>
          maskData(config, sensitiveFieldPatterns, lastIndex, call.data, <<>>).v = call.result)
  /\ [][call'.op \in {"maskData", "log"} => UNCHANGED <<config, sensitiveFieldPatterns>>]_vars

\* { access_token: 'abc123' } has been masked under the one rule
\* { field: /token/g, mask: '#', preserveLength: true } to '######', the
\* RegExp of the rule is left with lastIndex 12, and masking the same value
\* again gives another result
C12_SecondCallDiffers ==
  /\ call.op = "maskData" /\ config.enabled /\ config.customMasker = "null"
  /\ call.data = D_token
  /\ config.rules = <<4>>
  /\ call.li[4] = 0 /\ lastIndex[4] = 12
  /\ call.result = Obj(NewId, <<Entry(S.access_token, Str(Repeat(S.hash, 6)))>>)
  /\ maskData(config, sensitiveFieldPatterns, lastIndex, call.data, <<>>).v # call.result

(***************************************************************************)
(* Cyclic input                                                            *)
(***************************************************************************)
\* a maskData call on an object that contains itself has ended
CyclicCall == call.op \in {"maskData", "maskData throws"} /\ call.data \in CyclicObjects

\* the paths of a value at which a reference to an enclosing object stands
RECURSIVE RefPaths(_, _)
RefPaths(v, path) ==
  CASE v.t = "ref" -> {path}
    [] v.t = "obj" ->
         UNION { RefPaths(v.es[i].v, Append(path, KeyStep(v.es[i].k))) : i \in 1..Len(v.es) }
    [] v.t = "arr" -> UNION { RefPaths(v.xs[i], Append(path, IndexStep(i))) : i \in 1..Len(v.xs) }
    [] OTHER -> {}

\* no key on the path matches a rule or a sensitive name
ReachedByRecursion(path) ==
  \A n \in 1..Len(path) :
    path[n].i = 0 =>
      /\ findMatchingRule(config.rules, call.li, path[n].k).rule = 0
      /\ ~isSensitiveField(sensitiveFieldPatterns, path[n].k)

StringCall == call.op = "maskData" /\ config.enabled /\ call.data.t = "str"

\* a occurs in s
IsInfix(a, s) == \E i \in 0..(Len(s) - Len(a)) : Substring(s, i, i + Len(a)) = a

\* the texts a pattern matches in a string
MatchTexts(n, s) ==
  LET ms == AllMatches(n, s, 0) IN {Substring(s, ms[j].start, ms[j].end) : j \in 1..Len(ms)}

\* C14: every credit-card-like sequence of a string that goes through the
\* string-pattern redaction stands in the result as its partial credit-card
\* masking: the default mask once per digit but the last four, then the last
\* four digits.
C14_CardPartiallyMasked ==
  StringCall =>
    \A card \in MatchTexts(creditCardRegex, call.data.s) :
      IsInfix(partialMaskCreditCard(config, card), call.result.s)

\* '4532123456789012' came back as the default mask followed by '789012'
C14_PhonePatternTookTheCard ==
  /\ StringCall
  /\ call.data = Str(S.card)
  /\ call.result = Str(config.defaultMask \o <<"7","8","9","0","1","2">>)

\* C15: every email address of a string that goes through the string-pattern
\* redaction stands in the result as its partial email masking: the default
\* mask (local part of at most two characters) or the first and last local
\* character around the default mask, then '@' and the domain as it was.
C15_EmailPartiallyMasked ==
  StringCall =>
    \A email \in MatchTexts(emailRegex, call.data.s) :
      IsInfix(partialMaskEmail(config, email), call.result.s)

\* 'a@5551234.io' came back with the digits of its domain replaced
C15_PhonePatternTookTheDomain ==
  /\ StringCall
  /\ call.data = Str(<<"a","@","5","5","5","1","2","3","4",".","i","o">>)
  /\ call.result = Str(config.defaultMask \o <<"@">> \o config.defaultMask \o <<".","i","o">>)

(***************************************************************************)
(* The masking algorithms                                                  *)
(***************************************************************************)
\* the token of a rule: its mask, or the default mask when it has none
RuleToken(rule) == IF rule.hasMask THEN rule.mask ELSE config.defaultMask

\* the rule masking of a value as stated
RuleMasked(value, rule) ==
  IF IsNullish(value) THEN value
  ELSE IF value.t # "str" THEN Str(RuleToken(rule))
  ELSE IF rule.partial THEN Str(partialMask(value.s, RuleToken(rule), rule.preserveLength))
  ELSE IF rule.preserveLength THEN Str(preserveLengthMask(value.s, RuleToken(rule)))
  ELSE Str(RuleToken(rule))

\* C16: the value of a key matched by a rule, with token the rule's mask or
\* the default mask when the rule has none, passes through when null or
\* undefined, becomes the token when it is any other non-string, and when it is
\* a string becomes its partial mask (partial), else its length-preserving mask
\* (preserveLength), else the token.
C16_RuleMasking ==
  (Masked /\ config.customMasker = "null") =>
    \A d \in Decisions :
      d.how = "rule" =>
        ValueAt(CallOutput, d.path) = RuleMasked(ValueAt(CallInput, d.path), RuleTable[d.rule])

\* the rule { field: 'other_field', mask: '', partial: true } matched
\* other_field: 'normal', and the value came back with the default mask in
\* the middle
C16_EmptyMaskReplaced ==
  /\ call.op = "maskData" /\ config.enabled /\ config.customMasker = "null"
  /\ call.data = D_tokens
  /\ \E d \in Decisions :
       /\ d.how = "rule" /\ d.rule = 5
       /\ ValueAt(call.data, d.path) = Str(S.normal)
       /\ ValueAt(call.result, d.path) = Str(<<"n","o">> \o config.defaultMask \o <<"a","l">>)
       /\ RuleMasked(ValueAt(call.data, d.path), RuleTable[5]) = Str(<<"n","o","a","l">>)

\* the token applyMaskingRule hands to partialMask
TokenUsed(rule) == IF rule.hasMask /\ rule.mask # <<>> THEN rule.mask ELSE config.defaultMask

\* out is the partial mask of value as stated
IsPartialMask(out, value, token, preserveLength) ==
  IF Len(value) <= 4
  THEN out = (IF preserveLength THEN preserveLengthMask(value, token) ELSE token)
  ELSE /\ Len(out) >= 4
       /\ Substring(out, 0, 2) = Substring(value, 0, 2)
       /\ Substring(out, Len(out) - 2, Len(out)) = Substring(value, Len(value) - 2, Len(value))
       /\ IF preserveLength
          THEN /\ Len(out) = Len(value)
               /\ Substring(out, 2, Len(out) - 2)
                    = Substring(Repeat(token, Len(value) - 4), 0, Len(value) - 4)
          ELSE Substring(out, 2, Len(out) - 2) = token

\* out is the partial mask of value with the token once per hidden character
IsPartialMaskPerCharacter(out, value, token, preserveLength) ==
  IF Len(value) <= 4
  THEN out = (IF preserveLength THEN preserveLengthMask(value, token) ELSE token)
  ELSE LET middle == IF preserveLength THEN Len(token) * (Len(value) - 4) ELSE Len(token)
       IN  /\ Len(out) = 4 + middle
           /\ Substring(out, 0, 2) = Substring(value, 0, 2)
           /\ Substring(out, Len(out) - 2, Len(out)) = Substring(value, Len(value) - 2, Len(value))
           /\ \A i \in 1..middle : out[2 + i] = token[((i - 1) % Len(token)) + 1]
           /\ preserveLength => (Len(out) = Len(value) <=> Len(token) = 1)

\* C17: the partial mask of a string longer than 4 characters keeps its first
\* two and last two characters; with preserveLength the middle is the token
\* once per character in between, so the output is as long as the input
\* exactly when the token is one character, and without it the middle is the
\* token once; a string of at most 4 characters becomes its length-preserving
\* mask (preserveLength) or the token.
C17_PartialMaskTokenPerCharacter ==
  (Masked /\ config.customMasker = "null") =>
    \A d \in Decisions :
      (d.how = "rule" /\ RuleTable[d.rule].partial /\ ValueAt(CallInput, d.path).t = "str") =>
        /\ ValueAt(CallOutput, d.path).t = "str"
        /\ IsPartialMaskPerCharacter(ValueAt(CallOutput, d.path).s, ValueAt(CallInput, d.path).s,
                                     TokenUsed(RuleTable[d.rule]), RuleTable[d.rule].preserveLength)

\* C17 (as stated): the partial mask of a string longer than 4 characters keeps
\* its first two and last two characters; with preserveLength the middle is the
\* token repeated to fill the gap exactly and the output is as long as the
\* input, without it the middle is the token once; a string of at most 4
\* characters becomes its length-preserving mask (preserveLength) or the token.
C17_PartialMaskKeepsLength ==
  (Masked /\ config.customMasker = "null") =>
    \A d \in Decisions :
      (d.how = "rule" /\ RuleTable[d.rule].partial /\ ValueAt(CallInput, d.path).t = "str") =>
        /\ ValueAt(CallOutput, d.path).t = "str"
        /\ IsPartialMask(ValueAt(CallOutput, d.path).s, ValueAt(CallInput, d.path).s,
                         TokenUsed(RuleTable[d.rule]), RuleTable[d.rule].preserveLength)

\* the rule { field: 'normal', partial: true, preserveLength: true } with the
\* default mask '***' made 'normal data' (11 characters) 25 characters long
C17_MiddleLongerThanGap ==
  /\ call.op = "maskData" /\ config.enabled /\ config.customMasker = "null"
  /\ call.data = D_custom
  /\ config.defaultMask = S.stars
  /\ \E d \in Decisions : d.how = "rule" /\ d.rule = 6 /\ LastKey(d.path) = S.normal
  /\ ValueAt(call.result, <<KeyStep(S.normal)>>) =
       Str(<<"n","o">> \o Repeat(S.stars, 7) \o <<"t","a">>)

\* out is the sensitive-value masking of value with the token
IsSensitiveMasked(out, value, token) ==
  IF IsNullish(value) THEN out = value
  ELSE IF value.t = "str"
  THEN /\ out.t = "str"
       /\ IF Len(token) = 1
          THEN Len(out.s) = Len(value.s) /\ \A i \in 1..Len(out.s) : out.s[i] = token[1]
          ELSE out.s = token
  ELSE out = Str(token)

\* C18: the value of a key that matches a sensitive name and no rule, with no
\* custom masker set, passes through when null or undefined; a string becomes
\* the default mask's character repeated to the string's length when the mask
\* is one character, and the default mask itself when it has several; any other
\* value becomes the default mask.
C18_SensitiveValueMasked ==
  (Masked /\ config.customMasker = "null") =>
    \A d \in Decisions :
      /\ d.how = "sensitive" <=>
           /\ findMatchingRule(config.rules, d.li, LastKey(d.path)).rule = 0
           /\ isSensitiveField(sensitiveFieldPatterns, LastKey(d.path))
      /\ d.how = "sensitive" =>
           IsSensitiveMasked(ValueAt(CallOutput, d.path), ValueAt(CallInput, d.path),
                             config.defaultMask)

\* with the default mask '*': secret, token and address became '*', email and
\* phone stayed null and undefined, and apiKey: 'abc123' became '******'
C18_SensitiveValuesOfEveryType ==
  /\ call.op = "maskData" /\ config.enabled /\ config.customMasker = "null"
  /\ config.defaultMask = S.star
  /\ call.data = D_secrets
  /\ \A i \in 2..7 : \E d \in Decisions :
       d.how = "sensitive" /\ d.path = <<KeyStep(call.data.es[i].k)>>
  /\ call.result =
       Obj(NewId, <<Entry(S.password, Str(S.star)), Entry(S.secret, Str(S.star)),
                    Entry(S.token, Str(S.star)), Entry(S.email, Null),
                    Entry(<<"p","h","o","n","e">>, Undefined),
                    Entry(<<"a","d","d","r","e","s","s">>, Str(S.star)),
                    Entry(<<"a","p","i","K","e","y">>, Str(Repeat(S.star, 6)))>>)

(***************************************************************************)
(* addSensitiveField                                                       *)
(***************************************************************************)
\* addSensitiveField(name) has just stored the name
Stored(name) == call.op = "addSensitiveField" /\ call.field = name /\ call.pushed

\* maskData({ [name]: 'x' }), called now, masks the value of the key
KeyMasked(name) ==
  \A d \in {maskData(config, sensitiveFieldPatterns, lastIndex,
                     Obj(1, <<Entry(name, Str(<<"x">>))>>), <<>>).tr[1]} :
    d.how \in {"rule", "sensitive"}

\* C19: addSensitiveField(name) leaves the stored list as it is when exactly
\* that name is in it, and appends the name otherwise; once it has appended a
\* name, a maskData call (masking enabled, no custom masker) masks the value of
\* a key equal to the name.
C19_AddedNameIsMasked ==
  /\ [][call'.op = "addSensitiveField" =>
          IF \E i \in 1..Len(config.sensitiveFields) : config.sensitiveFields[i] = call'.field
          THEN config' = config /\ sensitiveFieldPatterns' = sensitiveFieldPatterns
          ELSE config' = [config EXCEPT !.sensitiveFields = Append(@, call'.field)]]_vars
  /\ [](\A name \in AddedFields :
          (Stored(name) /\ config.enabled /\ config.customMasker = "null") => KeyMasked(name))

\* addSensitiveField('$id') stored the name and compiled its pattern, and
\* maskData returned $id: 'secret1' as it was
C19_DollarNameNotMasked ==
  /\ call.op = "maskData" /\ config.enabled /\ config.customMasker = "null"
  /\ call.data = D_cases
  /\ IndexOf(DataMaskerConfig(logger.masking).sensitiveFields, S.dollar_id) = -1
  /\ IndexOf(config.sensitiveFields, S.dollar_id) # -1
  /\ Len(sensitiveFieldPatterns) = Len(config.sensitiveFields)
  /\ ValueAt(call.result, <<KeyStep(S.dollar_id)>>) = Str(S.secret1)

(***************************************************************************)
(* Masking disabled                                                        *)
(***************************************************************************)
\* C20: with enabled false, maskData returns the value it was given itself,
\* whatever rules, sensitive names or custom masker are configured: it returns
\* (it does not throw), the result is the same object with the same content,
\* the input is as it was, no key was decided on, the custom masker was not
\* called and no rule's lastIndex moved.
C20_DisabledIsIdentity ==
  (call.op \in {"maskData", "maskData throws"} /\ ~config.enabled) =>
    /\ call.op = "maskData"
    /\ call.result = call.data
    /\ call.after = call.data
    /\ call.tr = <<>>
    /\ lastIndex = call.li

\* a disabled masker with a rule in its list and a custom
\* masker handed { special: 'secret data', normal: 'normal data', ... } back
C20_DisabledWithRuleAndCustomMasker ==
  /\ call.op = "maskData" /\ ~config.enabled
  /\ config.customMasker # "null"
  /\ config.rules # <<>>
  /\ call.data = D_custom
  /\ call.result = D_custom
  /\ call.result.id = 1

(***************************************************************************)
(* The logger                                                              *)
(***************************************************************************)
\* the logger made with the masking options of the README has delivered the
\* README's context, and no configuration call has changed its masker
ReadmeCall ==
  /\ call.op = "log" /\ ~call.filtered
  /\ logger.masking = ReadmeOptions
  /\ config = DataMaskerConfig(ReadmeOptions)
  /\ sensitiveFieldPatterns = CompileFields(config.sensitiveFields)
  /\ call.raw.context = Obj(RawContextId, ReadmeContext)

\* C21: a logger created with masking { enabled: true, sensitiveFields:
\* ['password', 'ssn', 'creditCard'] } that logs the context { email:
\* 'user@example.com', password: 'secret123', username: 'john_doe' } delivers
\* email 'u***@example.com', password '***' and username 'john_doe'.
C21_ReadmeExample ==
  ReadmeCall =>
    \A i \in 1..Len(call.delivered) :
      call.delivered[i].context =
        Obj(NewId, <<Entry(S.email, Str(<<"u">> \o S.stars \o <<"@","e","x","a","m","p","l","e",".","c","o","m">>)),
                     Entry(S.password, Str(S.stars)),
                     Entry(S.username, Str(S.john_doe))>>)

\* the email was delivered as 'u***r@example.com'
C21_LastLocalCharacterKept ==
  /\ ReadmeCall
  /\ call.delivered[1].context =
       Obj(NewId, <<Entry(S.email, Str(<<"u">> \o S.stars \o <<"r","@","e","x","a","m","p","l","e",".","c","o","m">>)),
                    Entry(S.password, Str(S.stars)),
                    Entry(S.username, Str(S.john_doe))>>)

TopKeyOf(path) == CHOOSE q \in Ancestors(path) \cup {path} : q \in TopKeyPaths(CallInput)

\* C27: with a custom masker set, maskObject decides on no key of a mapping
\* nested under a key of the mapping it masks, and where the custom masker
\* handed back the value it was given for that key, every value below it is
\* in the result as it was given: the value of a nested key that a sensitive
\* name or a rule matches, and a string a pattern matches, are not masked.
C27_NothingBelowCustomKeys ==
  (Masked /\ config.customMasker # "null") =>
    \A p \in KeyPaths(CallInput, <<>>) \ TopKeyPaths(CallInput) :
      /\ ~DecidedAt(p)
      /\ LET q == TopKeyOf(p)
         IN  CallCustomMasker(config.customMasker, LastKey(q), ValueAt(CallInput, q))
               = ValueAt(CallInput, q)
             => ValueAt(CallOutput, p) = ValueAt(CallInput, p)

\* { user: { profile: { password: 'secret123', name: 'John' } } } has been
\* masked by the custom masker, with password a sensitive name: the custom
\* masker was asked for user only and the password is in the result
C27_NestedPasswordUnmasked ==
  /\ call.op = "maskData" /\ config.enabled /\ config.customMasker = "special"
  /\ call.data = D_nested
  /\ isSensitiveField(sensitiveFieldPatterns, S.password)
  /\ Len(call.tr) = 1
  /\ ValueAt(call.result, <<KeyStep(S.user), KeyStep(S.profile), KeyStep(S.password)>>)
       = Str(S.secret123)

\* the keys the sensitive-name test is put to
ProbedKeys == AddedFields \cup RemovedFields \cup {S.PASSWORD, S.Password, S.name}

\* C28: a call of addSensitiveField or removeSensitiveField on a masker whose
\* compiled patterns are those of its stored names, one for one and in order,
\* leaves it so, whether it returns or throws, and then a key is taken as
\* sensitive exactly when it equals a stored name but for case.
C28_PatternsFollowStoredNames ==
  [][(/\ call'.op \in {"addSensitiveField", "removeSensitiveField"}
      /\ sensitiveFieldPatterns = CompileFields(config.sensitiveFields))
     => /\ sensitiveFieldPatterns' = CompileFields(config'.sensitiveFields)
        /\ \A key \in ProbedKeys :
             isSensitiveField(sensitiveFieldPatterns', key)
               <=> \E i \in 1..Len(config'.sensitiveFields) :
                     ToLowerCase(config'.sensitiveFields[i]) = ToLowerCase(key)]_vars

\* addSensitiveField('*key') has thrown on a masker in step: '*key' is the
\* last stored name and no pattern stands for it
C28_StoredNameWithoutPattern ==
  /\ call.op = "addSensitiveField" /\ call.threw
  /\ call.field = S.star_key
  /\ config.sensitiveFields[Len(config.sensitiveFields)] = S.star_key
  /\ Len(sensitiveFieldPatterns) = Len(config.sensitiveFields) - 1
  /\ sensitiveFieldPatterns = CompileFields(SubSeq(config.sensitiveFields, 1, Len(sensitiveFieldPatterns)))

(***************************************************************************)
(* The transports                                                          *)
(***************************************************************************)
\* how often an entry is in a sequence of entries
Count(entries, e) == Cardinality({i \in 1..Len(entries) : entries[i] = e})

\* the entries of all the batches in flight
RECURSIVE Flatten(_)
Flatten(batches) == IF batches = <<>> THEN <<>> ELSE Head(batches) \o Flatten(Tail(batches))

\* the place of a level in the order DEBUG < INFO < WARN < ERROR < FATAL
LevelRank(level) ==
  CASE level = LogLevelValue.DEBUG -> 0
    [] level = LogLevelValue.INFO  -> 1
    [] level = LogLevelValue.WARN  -> 2
    [] level = LogLevelValue.ERROR -> 3
    [] level = LogLevelValue.FATAL -> 4

\* a log call whose entry the buffering transport's log was called with
LoggedToBuffering == call.op = "log" /\ event.op = "log" /\ 2 \in event.called

\* C22: an entry addToBuffer was given is at all times exactly once in the
\* buffer, in the batches in flight and in the entries sent, taken together,
\* and no other entry is in any of them; when flushEntries resolves, none of
\* the entries of its batch is in the buffer and each is among the entries
\* sent; when it rejects, every entry of its batch is in the buffer.
C22_EachEntryInOnePlace ==
  /\ [](\A e \in 1..(MaxEntries + 1) :
          Count(loki.buffer, e) + Count(Flatten(inFlight), e) + Count(sent, e)
            = IF e \in accepted THEN 1 ELSE 0)
  /\ [][/\ event'.op = "resolved" =>
             \A k \in 1..Len(event'.batch) :
               Count(loki'.buffer, event'.batch[k]) = 0 /\ Count(sent', event'.batch[k]) = 1
        /\ event'.op = "rejected" =>
             \A k \in 1..Len(event'.batch) : Count(loki'.buffer, event'.batch[k]) = 1]_vars

\* a flush has failed and its batch is back in the buffer, while another
\* entry is in flight and a third has been sent
C22_RestoredBesideInFlightAndSent ==
  /\ event.op = "rejected"
  /\ loki.buffer = event.batch
  /\ Len(inFlight) = 1 /\ Len(sent) = 1
  /\ accepted = {1, 2, 3}

\* C23 (as stated): when a log call on a buffering transport has returned,
\* the buffer holds fewer entries than the bufferSize configured.
C23_BufferBelowSizeAfterLog ==
  LoggedToBuffering => Len(loki.buffer) < loki.config.bufferSize

\* log has handed the first entry to a transport of bufferSize 0: the entry
\* is in the buffer and no flush has been started
C23_NoFlushForBufferSizeZero ==
  /\ LoggedToBuffering
  /\ loki.config.bufferSize = 0
  /\ loki.buffer = <<1>>
  /\ inFlight = <<>> /\ sent = <<>>

\* C24: a log call hands its entry to the registered transports, to all of
\* them, exactly when the level of the call is at or above the level of the
\* logger in the order DEBUG < INFO < WARN < ERROR < FATAL, whatever
\* setLevel has made that level; a call below the level hands it to none and
\* leaves the transports as they are.
C24_LevelFiltering ==
  /\ [](call.op = "log" =>
          /\ event.called = (IF LevelRank(call.level) >= LevelRank(logger.level)
                             THEN 1..Len(logger.transports) ELSE {})
          /\ call.filtered <=> LevelRank(call.level) < LevelRank(logger.level))
  /\ [][(call = Idle /\ call'.op = "log" /\ LevelRank(call'.level) < LevelRank(logger.level))
        => UNCHANGED <<loki, inFlight, sent, accepted, logged>>]_vars

\* setLevel('error') has raised the level of a logger made with level 'info',
\* and a log call at 'warn' has handed its entry to no transport
C24_WarnFilteredAfterSetLevel ==
  /\ logger.level = LogLevelValue.ERROR
  /\ call.op = "log" /\ call.level = LogLevelValue.WARN /\ call.filtered
  /\ event.called = {}
  /\ logged = 1 /\ accepted = {1}

\* C25: a log call whose level passes returns to its caller whichever
\* transports throw from their log, and every registered transport has its log
\* called with the entry, the same for all: the buffering transport between
\* the two mocks takes it into its buffer when its own level lets it.
C25_FailureIsolation ==
  (call.op = "log" /\ ~call.filtered) =>
    /\ event.returned
    /\ event.called = 1..Len(logger.transports)
    /\ \A i \in 1..Len(logger.transports) : call.delivered[i] = call.delivered[1]
    /\ TransportShouldLog(loki.config, call.level) => event.entry \in accepted
    /\ \A k \in 1..Len(event.failed) : event.failed[k] \in {"mock", "other"}

\* the transport before and the transport after the buffering one have both
\* thrown, and the entry is in the buffer
C25_BothMocksThrew ==
  /\ call.op = "log" /\ ~call.filtered
  /\ event.failed = <<"mock", "other">>
  /\ event.returned
  /\ loki.buffer = <<event.entry>>

\* C30 (as stated): the buffer holds its entries in the order they were
\* logged.
C30_BufferInLoggedOrder ==
  \A i, j \in 1..Len(loki.buffer) : i < j => loki.buffer[i] < loki.buffer[j]

\* two flushes were in flight with one entry each, the first failed and
\* then the second: the second entry is in the buffer before the first
C30_LaterEntryFirst ==
  /\ event.op = "rejected" /\ event.batch = <<2>>
  /\ loki.buffer = <<2, 1>>

(***************************************************************************)
(* Two instances                                                           *)
(***************************************************************************)
\* the data the masking of two instances is compared on
IsolationProbes ==
  { D_token, D_custom, Obj(1, <<Entry(S.username, Str(S.user)), Entry(S.password, Str(S.secret1))>>) }

\* the two maskers give the same result for every probe
MaskAlike(c1, p1, c2, p2) ==
  \A data \in IsolationProbes :
    maskData(c1, p1, lastIndex, data, <<>>).v = maskData(c2, p2, lastIndex, data, <<>>).v

\* C29 (as stated): addSensitiveField, addMaskingRule or setCustomMasker on
\* one instance leaves the masking of the other instance as it was, and an
\* instance made from the options object of another masks as the options
\* were written, whatever was called on the other instance before.
C29_InstancesIsolated ==
  [][/\ (call = Idle /\ other.exists
         /\ call'.op \in {"addSensitiveField", "addMaskingRule", "setCustomMasker"})
        => MaskAlike(other'.config, other'.sensitiveFieldPatterns,
                     other.config, other.sensitiveFieldPatterns)
     /\ (call = Idle /\ call'.op \in {"other.addSensitiveField", "other.addMaskingRule",
                                      "other.setCustomMasker"})
        => MaskAlike(config', sensitiveFieldPatterns', config, sensitiveFieldPatterns)
     /\ (call = Idle /\ call'.op \in {"new", "createChild"} /\ other'.exists)
        => MaskAlike(other'.config, other'.sensitiveFieldPatterns,
                     DataMaskerConfig(logger.masking),
                     CompileFields(DataMaskerConfig(logger.masking).sensitiveFields))]_vars

\* addMaskingRule({ field: /.*_token$/, ... }) was called on the logger whose
\* child createChild had made before: the child, on which nothing was called,
\* masks access_token by the rule
C29_ChildMasksByParentsRule ==
  /\ call.op = "addMaskingRule"
  /\ other.exists /\ other.how = "createChild" /\ other.own = 0
  /\ DataMaskerConfig(logger.masking).rules = <<>>
  /\ other.config.rules = <<call.rule>>
  /\ maskData(other.config, other.sensitiveFieldPatterns, lastIndex, D_token, <<>>).v
       # maskData(DataMaskerConfig(logger.masking), other.sensitiveFieldPatterns, lastIndex,
                  D_token, <<>>).v

=============================================================================
